---- MODULE Spec2Model ----
(***************************************************************************)
(* Frontmatter-Variables: variable resolution and frontmatter              *)
(* synchronisation engine.  Strings are sequences of one-character         *)
(* strings, structured data is a tagged tree, and every handler of the     *)
(* source is one action.                                                   *)
(***************************************************************************)
EXTENDS Integers, Sequences, FiniteSets, TLC

VARIABLES
    data,        \* the structured data (frontmatter object) being read/written
    lastOp,      \* record of the last path operation: op, path, before, result
    patternCache,\* variableReplacer.ts patternCache: null or {key, pattern}
    lastPattern, \* what the last getVariablePattern call returned and for which settings
    nCalls,      \* number of pattern-cache operations made so far
    modal,       \* ListVariablesModal: phase, frontmatter snapshot, pending changes
    doc,         \* live editor content of the modal's document (its frontmatter mapping)
    nEdits,      \* number of user edits made while the modal is open
    rn,          \* replaceInDocumentAndFilename: pc, computed needs, environment outcomes, effects
    scan,        \* the last text operation (replace, scan, decorate): its inputs and what it returned
    block,       \* the last frontmatter-block operation on a document text
    walk,        \* collectFrontmatterProperties: the object graph, call stack, visited set, output
    flow,        \* a VS Code edit flow: pc, scanned snapshot, live document, outcome
    deb          \* the decoration provider's debounce: clock, updateTimeout, timers, calls

vars == <<data, lastOp, patternCache, lastPattern, nCalls, modal, doc, nEdits, rn,
          scan, block, walk, flow, deb>>

\* the variables of the path, pattern-cache, modal and rename operations
coreVars == <<data, lastOp, patternCache, lastPattern, nCalls, modal, doc, nEdits, rn>>

(***************************************************************************)
(* Strings                                                                 *)
(***************************************************************************)
LowerAlpha == <<"a","b","c","d","e","f","g","h","i","j","k","l","m",
                "n","o","p","q","r","s","t","u","v","w","x","y","z">>
UpperAlpha == <<"A","B","C","D","E","F","G","H","I","J","K","L","M",
                "N","O","P","Q","R","S","T","U","V","W","X","Y","Z">>
DigitChars == <<"0","1","2","3","4","5","6","7","8","9">>

Range(s) == { s[i] : i \in DOMAIN s }

IsDigit(c) == c \in Range(DigitChars)

\* the regex class \w
IsWordChar(c) == c \in Range(LowerAlpha) \cup Range(UpperAlpha) \cup Range(DigitChars) \cup {"_"}

toLowerCaseChar(c) ==
    IF c \in Range(UpperAlpha)
    THEN LowerAlpha[CHOOSE i \in 1..26 : UpperAlpha[i] = c]
    ELSE c

\* String.prototype.toLowerCase
toLowerCase(s) == [i \in 1..Len(s) |-> toLowerCaseChar(s[i])]

DigitVal(c) == (CHOOSE i \in 1..10 : DigitChars[i] = c) - 1

\* parseInt on a string of decimal digits
RECURSIVE parseInt(_)
parseInt(s) ==
    IF Len(s) = 0 THEN 0
    ELSE 10 * parseInt(SubSeq(s, 1, Len(s) - 1)) + DigitVal(s[Len(s)])

\* String(n) for a non-negative integer
RECURSIVE NumToString(_)
NumToString(n) ==
    IF n < 10 THEN <<DigitChars[n + 1]>>
    ELSE NumToString(n \div 10) \o <<DigitChars[(n % 10) + 1]>>

\* path.split('.')
RECURSIVE split(_, _)
split(s, sepc) ==
    IF \A i \in 1..Len(s) : s[i] # sepc THEN <<s>>
    ELSE LET i == CHOOSE j \in 1..Len(s) : s[j] = sepc /\ \A k \in 1..(j-1) : s[k] # sepc
         IN  <<SubSeq(s, 1, i - 1)>> \o split(SubSeq(s, i + 1, Len(s)), sepc)

\* Array.prototype.join
RECURSIVE join(_, _)
join(parts, sepc) ==
    IF Len(parts) = 0 THEN <<>>
    ELSE IF Len(parts) = 1 THEN parts[1]
    ELSE parts[1] \o sepc \o join(Tail(parts), sepc)

\* key.match(/^(\w+)\[(\d+)\]$/): the position of the '[' when the key matches, 0 otherwise
arrayMatchPos(key) ==
    IF \E i \in 2..(Len(key) - 2) :
           /\ key[i] = "["
           /\ key[Len(key)] = "]"
           /\ \A k \in 1..(i-1) : IsWordChar(key[k])
           /\ \A k \in (i+1)..(Len(key)-1) : IsDigit(key[k])
    THEN CHOOSE i \in 2..(Len(key) - 2) :
           /\ key[i] = "["
           /\ \A k \in 1..(i-1) : IsWordChar(key[k])
    ELSE 0

arrayMatch(key) ==
    LET i == arrayMatchPos(key)
    IN  IF i = 0 THEN [ok |-> FALSE, propName |-> <<>>, index |-> 0]
        ELSE [ok |-> TRUE,
              propName |-> SubSeq(key, 1, i - 1),
              index |-> parseInt(SubSeq(key, i + 1, Len(key) - 1))]

(***************************************************************************)
(* Program constants                                                       *)
(***************************************************************************)
kProto == <<"_","_","p","r","o","t","o","_","_">>
kConstructor == <<"c","o","n","s","t","r","u","c","t","o","r">>
kPrototype == <<"p","r","o","t","o","t","y","p","e">>
kLength == <<"l","e","n","g","t","h">>
kToString == <<"t","o","S","t","r","i","n","g">>

FORBIDDEN_KEYS == {kProto, kConstructor, kPrototype}

MAX_ARRAY_INDEX == 1000

MAX_DELIMITER_LEN == 10

(***************************************************************************)
(* Structured data: every node has the same shape.                         *)
(*   t  : "undef" | "null" | "str" | "num" | "fn" | "seq" | "map"          *)
(*   v  : text of a scalar                                                 *)
(*   e  : elements of a Sequence (a hole is an "undef" node)               *)
(*   m  : own string-keyed properties (of a Mapping, or added to an Array) *)
(*   ks : the keys of m in insertion order                                 *)
(***************************************************************************)
NoProps == [k \in {} |-> 0]

Node(t, v, e, m, ks) == [t |-> t, v |-> v, e |-> e, m |-> m, ks |-> ks]

Absent == Node("undef", <<>>, <<>>, NoProps, <<>>)
Null == Node("null", <<>>, <<>>, NoProps, <<>>)
Str(s) == Node("str", s, <<>>, NoProps, <<>>)
Num(n) == Node("num", NumToString(n), <<>>, NoProps, <<>>)
Fn == Node("fn", <<>>, <<>>, NoProps, <<>>)
Bool(b) == Node("bool", IF b THEN <<"t","r","u","e">> ELSE <<"f","a","l","s","e">>, <<>>, NoProps, <<>>)
SeqOf(es) == Node("seq", <<>>, es, NoProps, <<>>)
EmptyMap == Node("map", <<>>, <<>>, NoProps, <<>>)
EmptySeq == SeqOf(<<>>)

\* typeof x === 'object' && x !== null
IsObject(n) == n.t \in {"map", "seq"}

IsArray(n) == n.t = "seq"

\* names every object inherits from Object.prototype (one representative)
InheritedNames == {kToString}

\* a canonical array index: "0", or digits without a leading zero
IsIndexKey(k) ==
    /\ Len(k) > 0
    /\ \A i \in 1..Len(k) : IsDigit(k[i])
    /\ (Len(k) = 1 \/ k[1] # "0")

\* JavaScript `k in n` for an object n
HasProp(n, k) ==
    \/ k \in DOMAIN n.m
    \/ k \in InheritedNames
    \/ /\ IsArray(n)
       /\ \/ k = kLength
          \/ /\ IsIndexKey(k)
             /\ parseInt(k) < Len(n.e)
             /\ n.e[parseInt(k) + 1].t # "undef"

\* JavaScript n[k]
GetProp(n, k) ==
    IF ~IsObject(n) THEN Absent
    ELSE IF IsArray(n) /\ k = kLength THEN Num(Len(n.e))
    ELSE IF IsArray(n) /\ IsIndexKey(k)
         THEN IF parseInt(k) < Len(n.e) THEN n.e[parseInt(k) + 1] ELSE Absent
    ELSE IF k \in DOMAIN n.m THEN n.m[k]
    ELSE IF k \in InheritedNames THEN Fn
    ELSE Absent

\* arr[i] for a number i
ElemAt(n, i) == IF IsArray(n) /\ i < Len(n.e) THEN n.e[i + 1] ELSE Absent

\* arr[i] = x, growing the array with holes when i is past the end
SetElem(n, i, x) ==
    [n EXCEPT !.e = [j \in 1..(IF i + 1 > Len(n.e) THEN i + 1 ELSE Len(n.e)) |->
                        IF j = i + 1 THEN x
                        ELSE IF j <= Len(n.e) THEN n.e[j] ELSE Absent]]

PutOwn(n, k, x) ==
    [n EXCEPT !.m = [kk \in (DOMAIN n.m) \cup {k} |-> IF kk = k THEN x ELSE n.m[kk]],
              !.ks = IF k \in DOMAIN n.m THEN n.ks ELSE Append(n.ks, k)]

\* ToNumber(x) as a valid array length, -1 when `arr.length = x` raises RangeError
ToLength(x) ==
    IF x.t \in {"str", "num"} /\ \A i \in 1..Len(x.v) : IsDigit(x.v[i]) THEN parseInt(x.v)
    ELSE IF x.t = "seq" /\ Len(x.e) = 0 THEN 0
    ELSE IF x.t = "null" THEN 0
    ELSE -1

\* JavaScript n[k] = x for an object n: the updated object, and whether it threw
SetProp(n, k, x) ==
    IF IsArray(n) /\ k = kLength
    THEN IF ToLength(x) < 0 THEN [n |-> n, threw |-> TRUE]
         ELSE [n |-> [n EXCEPT !.e = [j \in 1..ToLength(x) |->
                                        IF j <= Len(n.e) THEN n.e[j] ELSE Absent]],
               threw |-> FALSE]
    ELSE IF IsArray(n) /\ IsIndexKey(k)
    THEN [n |-> SetElem(n, parseInt(k), x), threw |-> FALSE]
    ELSE [n |-> PutOwn(n, k, x), threw |-> FALSE]

\* the same store when the property already holds an object (never throws)
ReplaceProp(n, k, x) == SetProp(n, k, x).n

\* push(x) until arr.length > index
PadTo(arr, index, x) ==
    [arr EXCEPT !.e = [j \in 1..(IF index + 1 > Len(arr.e) THEN index + 1 ELSE Len(arr.e)) |->
                          IF j <= Len(arr.e) THEN arr.e[j] ELSE x]]

(***************************************************************************)
(* Path Mutator: setNestedValue (src/src/frontmatterParser.ts)             *)
(* The source mutates `current` in place and returns early; the recursion  *)
(* below rebuilds the parent around the (possibly partly) mutated child,   *)
(* so every store made before an early return or a throw is kept.          *)
(*   st = "ok"    the terminal assignment was made                         *)
(*   st = "ret"   an early `return` (forbidden key, index above the bound) *)
(*   st = "throw" a TypeError / RangeError escaped the function            *)
(***************************************************************************)
IsForbidden(key) == toLowerCase(key) \in FORBIDDEN_KEYS

\* `if (!(propName in current) || !Array.isArray(current[propName])) current[propName] = []`
EnsureArray(current, propName) ==
    IF ~HasProp(current, propName) \/ ~IsArray(GetProp(current, propName))
    THEN SetProp(current, propName, EmptySeq).n
    ELSE current

RECURSIVE setNestedValueFrom(_, _, _, _)
setNestedValueFrom(current, keys, i, value) ==
    LET key == keys[i]
        am == arrayMatch(key)
        cur1 == EnsureArray(current, am.propName)
        arr == GetProp(cur1, am.propName)
    IN
    IF i < Len(keys)
    THEN \* the loop body, lines 120-169
         IF IsForbidden(key) THEN [n |-> current, st |-> "ret"]
         ELSE IF am.ok
         THEN IF IsForbidden(am.propName) THEN [n |-> current, st |-> "ret"]
              ELSE IF am.index > MAX_ARRAY_INDEX THEN [n |-> cur1, st |-> "ret"]
              ELSE IF ~IsArray(arr) THEN [n |-> cur1, st |-> "throw"]
              ELSE LET arr1 == PadTo(arr, am.index, EmptyMap)
                       elem == ElemAt(arr1, am.index)
                       child == IF IsObject(elem) THEN elem ELSE EmptyMap
                       r == setNestedValueFrom(child, keys, i + 1, value)
                   IN  [n |-> ReplaceProp(cur1, am.propName, SetElem(arr1, am.index, r.n)),
                        st |-> r.st]
         ELSE IF HasProp(current, key) /\ IsObject(GetProp(current, key))
         THEN LET r == setNestedValueFrom(GetProp(current, key), keys, i + 1, value)
              IN  [n |-> ReplaceProp(current, key, r.n), st |-> r.st]
         ELSE LET s == SetProp(current, key, EmptyMap)
                  r == setNestedValueFrom(EmptyMap, keys, i + 1, value)
              IN  IF s.threw THEN [n |-> current, st |-> "throw"]
                  ELSE [n |-> ReplaceProp(s.n, key, r.n), st |-> r.st]
    ELSE \* the final key, lines 171-209
         IF IsForbidden(key) THEN [n |-> current, st |-> "ret"]
         ELSE IF am.ok
         THEN IF IsForbidden(am.propName) THEN [n |-> current, st |-> "ret"]
              ELSE IF am.index > MAX_ARRAY_INDEX THEN [n |-> cur1, st |-> "ret"]
              ELSE IF ~IsArray(arr) THEN [n |-> cur1, st |-> "throw"]
              ELSE [n |-> ReplaceProp(cur1, am.propName,
                                      SetElem(PadTo(arr, am.index, Null), am.index, value)),
                    st |-> "ok"]
         ELSE LET s == SetProp(current, key, value)
              IN  [n |-> s.n, st |-> IF s.threw THEN "throw" ELSE "ok"]

setNestedValue(obj, path, value) == setNestedValueFrom(obj, split(path, "."), 1, value)

(***************************************************************************)
(* Key Resolver and Path Resolver (src/src/variableReplacer.ts)            *)
(***************************************************************************)
NoKey == [found |-> FALSE, key |-> <<>>]

\* the first of Object.keys(obj) whose lower-cased form is lowerKey; keys that
\* differ from their lower-cased form are never array indices, so they come in
\* insertion order
RECURSIVE firstLowerMatch(_, _, _)
firstLowerMatch(ks, i, lowerKey) ==
    IF i > Len(ks) THEN NoKey
    ELSE IF toLowerCase(ks[i]) = lowerKey THEN [found |-> TRUE, key |-> ks[i]]
    ELSE firstLowerMatch(ks, i + 1, lowerKey)

\* findKey without the forbidden-key guard
findKey_noGuard(obj, key, caseInsensitive) ==
    IF ~IsObject(obj) THEN NoKey
    ELSE IF HasProp(obj, key) THEN [found |-> TRUE, key |-> key]
    ELSE IF caseInsensitive THEN firstLowerMatch(obj.ks, 1, toLowerCase(key))
    ELSE NoKey

findKey(obj, key, caseInsensitive) ==
    IF ~IsObject(obj) THEN NoKey
    ELSE IF toLowerCase(key) \in FORBIDDEN_KEYS THEN NoKey
    ELSE IF HasProp(obj, key) THEN [found |-> TRUE, key |-> key]
    ELSE IF caseInsensitive THEN firstLowerMatch(obj.ks, 1, toLowerCase(key))
    ELSE NoKey

\* `!foundKey`: undefined, or the empty string
NotFound(fk) == ~fk.found \/ fk.key = <<>>

\* `!obj`
Falsy(n) ==
    \/ n.t \in {"undef", "null"}
    \/ n.t = "str" /\ n.v = <<>>
    \/ n.t = "num" /\ n.v = <<"0">>
    \/ n = Bool(FALSE)

RECURSIVE getNestedValueFrom(_, _, _, _)
getNestedValueFrom(value, keys, i, caseInsensitive) ==
    IF i > Len(keys) THEN value
    ELSE IF value.t \in {"undef", "null"} THEN Absent
    ELSE LET key == keys[i]
             am == arrayMatch(key)
             fk == findKey(value, IF am.ok THEN am.propName ELSE key, caseInsensitive)
             next == GetProp(value, fk.key)
         IN  IF NotFound(fk) THEN Absent
             ELSE IF am.ok
             THEN IF IsArray(next)
                  THEN getNestedValueFrom(ElemAt(next, am.index), keys, i + 1, caseInsensitive)
                  ELSE Absent
             ELSE getNestedValueFrom(next, keys, i + 1, caseInsensitive)

getNestedValue(obj, path, caseInsensitive) ==
    IF Falsy(obj) THEN Absent
    ELSE getNestedValueFrom(obj, split(path, "."), 1, caseInsensitive)

(***************************************************************************)
(* Path Mutator of the Obsidian plugin (src/main.js): the same walk, with  *)
(* every key looked up through findKey under settings.caseInsensitive.     *)
(***************************************************************************)
\* `foundKey || key`
KeyOr(fk, key) == IF NotFound(fk) THEN key ELSE fk.key

RECURSIVE Plugin_setNestedValueFrom(_, _, _, _, _)
Plugin_setNestedValueFrom(current, keys, i, value, caseInsensitive) ==
    LET key == keys[i]
        am == arrayMatch(key)
        actualPropKey == KeyOr(findKey(current, am.propName, caseInsensitive), am.propName)
        cur1 == EnsureArray(current, actualPropKey)
        arr == GetProp(cur1, actualPropKey)
        foundKey == findKey(current, key, caseInsensitive)
    IN
    IF i < Len(keys)
    THEN IF IsForbidden(key) THEN [n |-> current, st |-> "ret"]
         ELSE IF am.ok
         THEN IF IsForbidden(am.propName) THEN [n |-> current, st |-> "ret"]
              ELSE IF am.index > MAX_ARRAY_INDEX THEN [n |-> cur1, st |-> "ret"]
              ELSE IF ~IsArray(arr) THEN [n |-> cur1, st |-> "throw"]
              ELSE LET arr1 == PadTo(arr, am.index, EmptyMap)
                       elem == ElemAt(arr1, am.index)
                       child == IF IsObject(elem) THEN elem ELSE EmptyMap
                       r == Plugin_setNestedValueFrom(child, keys, i + 1, value, caseInsensitive)
                   IN  [n |-> ReplaceProp(cur1, actualPropKey, SetElem(arr1, am.index, r.n)),
                        st |-> r.st]
         ELSE IF ~NotFound(foundKey) /\ IsObject(GetProp(current, foundKey.key))
         THEN LET r == Plugin_setNestedValueFrom(GetProp(current, foundKey.key), keys, i + 1,
                                                 value, caseInsensitive)
              IN  [n |-> ReplaceProp(current, foundKey.key, r.n), st |-> r.st]
         ELSE LET k == KeyOr(foundKey, key)
                  s == SetProp(current, k, EmptyMap)
                  r == Plugin_setNestedValueFrom(EmptyMap, keys, i + 1, value, caseInsensitive)
              IN  IF s.threw THEN [n |-> current, st |-> "throw"]
                  ELSE [n |-> ReplaceProp(s.n, k, r.n), st |-> r.st]
    ELSE IF IsForbidden(key) THEN [n |-> current, st |-> "ret"]
         ELSE IF am.ok
         THEN IF IsForbidden(am.propName) THEN [n |-> current, st |-> "ret"]
              ELSE IF am.index > MAX_ARRAY_INDEX THEN [n |-> cur1, st |-> "ret"]
              ELSE IF ~IsArray(arr) THEN [n |-> cur1, st |-> "throw"]
              ELSE [n |-> ReplaceProp(cur1, actualPropKey,
                                      SetElem(PadTo(arr, am.index, Null), am.index, value)),
                    st |-> "ok"]
         ELSE LET s == SetProp(current, KeyOr(foundKey, key), value)
              IN  [n |-> s.n, st |-> IF s.threw THEN "throw" ELSE "ok"]

Plugin_setNestedValue(obj, path, value, supportNestedProperties, caseInsensitive) ==
    IF ~supportNestedProperties
    THEN \* simple mode: direct key assignment
         IF IsForbidden(path) THEN [n |-> obj, st |-> "ret"]
         ELSE LET s == SetProp(obj, KeyOr(findKey(obj, path, caseInsensitive), path), value)
              IN  [n |-> s.n, st |-> IF s.threw THEN "throw" ELSE "ok"]
    ELSE Plugin_setNestedValueFrom(obj, split(path, "."), 1, value, caseInsensitive)

(***************************************************************************)
(* Pattern Compiler (src/src/variableReplacer.ts)                          *)
(* A matcher is the source of its regular expression, kept as the three    *)
(* escaped tokens around the fixed name and default groups, and the        *)
(* lastIndex of the RegExp object.                                         *)
(***************************************************************************)
RegexMetaChars == {".", "*", "+", "?", "^", "$", "{", "}", "(", ")", "|", "[", "]", "\\"}

\* string.replace(/[.*+?^${}()|[\]\\]/g, '\\$&')
RECURSIVE escapeRegex(_)
escapeRegex(string) ==
    IF Len(string) = 0 THEN <<>>
    ELSE (IF Head(string) \in RegexMetaChars THEN <<"\\", Head(string)>> ELSE <<Head(string)>>)
         \o escapeRegex(Tail(string))

\* new RegExp(`${open}\\s*([\\w.\\[\\]\\-]+)\\s*(?:${sep}\\s*(.*?))?\\s*${close}`, 'g')
Pattern(open, close, sep) == [open |-> open, close |-> close, sep |-> sep, lastIndex |-> 0]

\* /\{\{\s*([\w.[\]-]+)\s*(?::\s*(.*?))?\s*\}\}/g
DefaultPattern == Pattern(<<"\\", "{", "\\", "{">>, <<"\\", "}", "\\", "}">>, <<":">>)

NullCache == [set |-> FALSE, key |-> <<>>, pattern |-> DefaultPattern]

Settings(open, close, sep) ==
    [openDelimiter |-> open, closeDelimiter |-> close, defaultSeparator |-> sep]

\* `${openDelimiter}|${closeDelimiter}|${defaultSeparator}`
CacheKey(settings) ==
    settings.openDelimiter \o <<"|">> \o settings.closeDelimiter \o <<"|">> \o settings.defaultSeparator

\* the call's result: the matcher returned, and the cache after the call (the
\* cached matcher is the object returned, so its lastIndex is shared)
getVariablePattern(cache, settings) ==
    IF \/ Len(settings.openDelimiter) > MAX_DELIMITER_LEN
       \/ Len(settings.closeDelimiter) > MAX_DELIMITER_LEN
       \/ Len(settings.defaultSeparator) > MAX_DELIMITER_LEN
    THEN [pattern |-> DefaultPattern, cache |-> cache, shared |-> FALSE]
    ELSE IF cache.set /\ cache.key = CacheKey(settings)
    THEN [pattern |-> [cache.pattern EXCEPT !.lastIndex = 0],
          cache |-> [cache EXCEPT !.pattern.lastIndex = 0],
          shared |-> TRUE]
    ELSE LET pattern == Pattern(escapeRegex(settings.openDelimiter),
                                escapeRegex(settings.closeDelimiter),
                                escapeRegex(settings.defaultSeparator))
         IN  [pattern |-> pattern,
              cache |-> [set |-> TRUE, key |-> CacheKey(settings), pattern |-> pattern],
              shared |-> TRUE]

\* a matcher compiled from the settings without any cache
FreshPattern(settings) ==
    Pattern(escapeRegex(settings.openDelimiter),
            escapeRegex(settings.closeDelimiter),
            escapeRegex(settings.defaultSeparator))

sOpen == <<"{", "{">>
sClose == <<"}", "}">>
sColon == <<":">>
sPiped == <<"a", "|", "a">>
sTooLong == [i \in 1..(MAX_DELIMITER_LEN + 1) |-> "<"]

OpenDelimiters == {sOpen, <<"a">>, sPiped, <<>>, sTooLong}
CloseDelimiters == {sClose, <<"a">>, sPiped, <<>>, sTooLong}
DefaultSeparators == {sColon, <<>>, sTooLong}

SettingsSet ==
    { Settings(o, c, sp) : o \in OpenDelimiters, c \in CloseDelimiters, sp \in DefaultSeparators }

\* every token is non-empty and at most 10 characters
TokensInRange(settings) ==
    /\ Len(settings.openDelimiter) \in 1..MAX_DELIMITER_LEN
    /\ Len(settings.closeDelimiter) \in 1..MAX_DELIMITER_LEN
    /\ Len(settings.defaultSeparator) \in 1..MAX_DELIMITER_LEN

\* the delimiter invariant of the configuration
DelimiterInvariant(settings) ==
    TokensInRange(settings) /\ settings.openDelimiter # settings.closeDelimiter

\* the number of getVariablePattern calls in one run
MaxCalls == 2

\* the furthest offset at which a scan leaves the shared matcher
MaxScanOffset == 2

NoPatternCall ==
    [op |-> "none", settings |-> Settings(sOpen, sClose, sColon), returned |-> DefaultPattern,
     allInRange |-> TRUE]

\* a caller that runs its matching to the end (replaceVariables, scanDocumentVariables):
\* the matcher's lastIndex is back at 0 when it returns
GetVariablePattern(settings) ==
    /\ nCalls < MaxCalls
    /\ LET r == getVariablePattern(patternCache, settings)
       IN  /\ patternCache' = r.cache
           /\ lastPattern' = [op |-> "get", settings |-> settings, returned |-> r.pattern,
                              allInRange |-> lastPattern.allInRange /\ TokensInRange(settings)]
    /\ nCalls' = nCalls + 1
    /\ UNCHANGED <<data, lastOp, modal, doc, nEdits, rn, scan, block, walk, flow, deb>>

\* getVariableAtPosition returns from inside its exec loop: the matcher it got
\* is left at the end of the match found, `offset` characters into the line
GetVariableAtPosition(settings, offset) ==
    /\ nCalls < MaxCalls
    /\ LET r == getVariablePattern(patternCache, settings)
       IN  /\ patternCache' = IF r.shared
                              THEN [r.cache EXCEPT !.pattern.lastIndex = offset]
                              ELSE r.cache
           /\ lastPattern' = [op |-> "get", settings |-> settings, returned |-> r.pattern,
                              allInRange |-> lastPattern.allInRange /\ TokensInRange(settings)]
    /\ nCalls' = nCalls + 1
    /\ UNCHANGED <<data, lastOp, modal, doc, nEdits, rn, scan, block, walk, flow, deb>>

InvalidatePatternCache ==
    /\ patternCache.set
    /\ patternCache' = NullCache
    /\ lastPattern' = [lastPattern EXCEPT !.op = "invalidate"]
    /\ UNCHANGED <<data, lastOp, nCalls, modal, doc, nEdits, rn, scan, block, walk, flow, deb>>

\* C6: after any sequence of getVariablePattern calls whose tokens are all
\* non-empty and at most 10 characters, interleaved with cache invalidations
\* and scans that leave the shared matcher part-way, each call returns a
\* matcher equal to one compiled fresh from that call's settings, at offset 0.
C6_CacheNeverAffectsResult ==
    (lastPattern.op = "get" /\ lastPattern.allInRange)
        => lastPattern.returned = FreshPattern(lastPattern.settings)

\* C7: for every configuration that violates the delimiter invariant (a token
\* empty or longer than 10 characters, or openDelimiter = closeDelimiter),
\* getVariablePattern returns the hard-coded default matcher.
C7_InvalidConfigurationFallsBack ==
    (lastPattern.op = "get" /\ ~DelimiterInvariant(lastPattern.settings))
        => lastPattern.returned = DefaultPattern

(***************************************************************************)
(* Inputs of the path operations                                           *)
(***************************************************************************)
sA == <<"a">>
sUpperA == <<"A">>
sB == <<"b">>
sZero == <<"0">>
sEmpty == <<>>
sMixedConstructor == <<"C","o","n","s","t","r","u","c","t","o","r">>
sUpperPrototype == <<"P","R","O","T","O","T","Y","P","E">>

\* identifier[index]
Indexed(name, n) == name \o <<"[">> \o NumToString(n) \o <<"]">>

\* segments of the paths written
WriteSegments ==
    {sA, sB, sZero, sEmpty, kLength, kProto, sMixedConstructor,
     Indexed(sA, 0), Indexed(sA, MAX_ARRAY_INDEX + 1), Indexed(sUpperPrototype, 0)}

\* segments of the paths read
ReadSegments ==
    {sA, sUpperA, sB, sZero, kLength, kToString, kProto, sMixedConstructor,
     Indexed(sA, 0), Indexed(sA, MAX_ARRAY_INDEX + 1), Indexed(sUpperPrototype, 0)}

\* the longest path, in segments
MaxSegments == 2

RECURSIVE SegmentLists(_, _)
SegmentLists(segs, n) ==
    IF n = 0 THEN {<<>>}
    ELSE {<<>>} \cup { <<sg>> \o rest : sg \in segs, rest \in SegmentLists(segs, n - 1) }

PathsOver(segs) == { join(sl, <<".">>) : sl \in SegmentLists(segs, MaxSegments) \ {<<>>} }

WritePaths == PathsOver(WriteSegments)

ReadPaths == PathsOver(ReadSegments)

Values == {Str(<<"v">>), Str(<<>>)}

MapOf1(k1, v1) == PutOwn(EmptyMap, k1, v1)
MapOf2(k1, v1, k2, v2) == PutOwn(MapOf1(k1, v1), k2, v2)

\* a Sequence longer than the index bound
LongSeq == SeqOf([i \in 1..(MAX_ARRAY_INDEX + 2) |-> Str(<<"e">>)])

\* frontmatter objects as parsed from a document: Mappings of scalars, Sequences and Mappings
DataSet ==
    {EmptyMap,
     MapOf1(sA, Str(<<"x">>)),
     MapOf1(sA, Null),
     MapOf2(sA, Str(<<>>), sB, Str(<<"y">>)),
     MapOf1(sUpperA, Str(<<"x">>)),
     MapOf1(sA, MapOf1(sB, Str(<<"x">>))),
     MapOf1(sA, MapOf2(kConstructor, Str(<<"x">>), sB, Null)),
     MapOf1(sA, SeqOf(<<Str(<<"x">>), Str(<<"y">>)>>)),
     MapOf1(sA, SeqOf(<<MapOf1(sB, Str(<<"x">>)), Null>>)),
     MapOf1(sA, LongSeq),
     MapOf2(kProto, Str(<<"x">>), sMixedConstructor, MapOf1(sA, Str(<<"x">>))),
     MapOf2(sB, SeqOf(<<>>), kPrototype, SeqOf(<<Str(<<"x">>)>>))}

NoOp == [op |-> "none", path |-> <<>>, ci |-> FALSE, value |-> Absent,
         before |-> EmptyMap, result |-> Absent, st |-> "none"]

\* a segment of the path is identifier[index] with index above the bound
HasOversizedIndex(path) ==
    \E i \in DOMAIN split(path, ".") :
        LET am == arrayMatch(split(path, ".")[i])
        IN  am.ok /\ am.index > MAX_ARRAY_INDEX

\* a segment of the path, or the identifier of identifier[index], is a forbidden key
HasForbiddenSegment(path) ==
    \E i \in DOMAIN split(path, ".") :
        LET sg == split(path, ".")[i]
            am == arrayMatch(sg)
        IN  IsForbidden(sg) \/ (am.ok /\ IsForbidden(am.propName))

(***************************************************************************)
(* Write specification: an object parsed from the document is written by   *)
(* setNestedValue, once per entry of the caller's updates.                 *)
(* Read specification: a parsed object is read by getNestedValue.          *)
(***************************************************************************)
\* one call on a freshly parsed object
SetNestedValue(path, value) ==
    /\ lastOp.op = "none"
    /\ LET r == setNestedValue(data, path, value)
       IN  /\ data' = r.n
           /\ lastOp' = [op |-> "set", path |-> path, ci |-> FALSE, value |-> value,
                         before |-> data, result |-> Absent, st |-> r.st]
    /\ UNCHANGED <<patternCache, lastPattern, nCalls, modal, doc, nEdits, rn, scan, block, walk, flow, deb>>

\* one call on a freshly parsed object; the call has no effect on the object
GetNestedValue(path, caseInsensitive) ==
    /\ lastOp.op = "none"
    /\ lastOp' = [op |-> "get", path |-> path, ci |-> caseInsensitive, value |-> Absent,
                  before |-> data, result |-> getNestedValue(data, path, caseInsensitive),
                  st |-> "ok"]
    /\ UNCHANGED <<data, patternCache, lastPattern, nCalls, modal, doc, nEdits, rn, scan, block, walk, flow, deb>>

(***************************************************************************)
(* Properties of the path operations                                       *)
(***************************************************************************)

\* C1: a setNestedValue call whose path has a segment identifier[index] with
\* index > 1000 leaves the data exactly as it was before the call.
C1_OversizedIndexLeavesDataUnchanged ==
    (lastOp.op = "set" /\ HasOversizedIndex(lastOp.path)) => data = lastOp.before

\* C2: a setNestedValue call whose path has a forbidden segment at any position
\* has no partial effect: the data after the call equals the data before it.
C2_ForbiddenSegmentNoPartialEffect ==
    (lastOp.op = "set" /\ HasForbiddenSegment(lastOp.path)) => data = lastOp.before

\* C8: getNestedValue over a path with a forbidden segment (plain, or the
\* identifier of identifier[index], in any letter case) returns Absent, for
\* either value of caseInsensitive, and the data is not modified.
C8_ForbiddenSegmentReadsAbsent ==
    (lastOp.op = "get" /\ HasForbiddenSegment(lastOp.path))
        => (lastOp.result = Absent /\ data = lastOp.before)

\* C8 witness: a case-insensitive read of a forbidden name that the data holds as an own key
C8_Witness ==
    /\ lastOp.op = "get"
    /\ lastOp.ci
    /\ lastOp.path = sMixedConstructor
    /\ sMixedConstructor \in DOMAIN data.m
    /\ lastOp.result = Absent

\* C9: findKey returns absent for every name whenever the node is not a
\* Mapping, so getNestedValue never descends through a Sequence by a plain
\* segment (a.length and a.0 over {a: [x, y]} resolve to Absent).
C9_NonMappingNeverResolves ==
    lastOp.op = "get" =>
        /\ \A k \in DOMAIN lastOp.before.m :
              lastOp.before.m[k].t # "map" =>
                  \A name \in ReadSegments, ci \in BOOLEAN :
                      ~findKey(lastOp.before.m[k], name, ci).found
        /\ (/\ Len(split(lastOp.path, ".")) = 2
            /\ split(lastOp.path, ".")[1] \in DOMAIN lastOp.before.m
            /\ lastOp.before.m[split(lastOp.path, ".")[1]].t = "seq")
              => lastOp.result = Absent

\* C10: getNestedValue over a path with a segment identifier[index] with
\* index > 1000 returns Absent, even when the Sequence has more than index elements.
C10_OversizedIndexReadsAbsent ==
    (lastOp.op = "get" /\ HasOversizedIndex(lastOp.path)) => lastOp.result = Absent

(***************************************************************************)
(* ListVariablesModal (src/main.js): opened by listAllVariables with a     *)
(* snapshot of the parsed frontmatter; the user may edit the document      *)
(* while it is open; saveAll writes the changed inputs back.               *)
(* The live document is its parsed frontmatter Mapping and whether the     *)
(* content starts with "---".                                              *)
(***************************************************************************)
sCommaKey == <<"a", ",", "b">>

\* UTF-16 code unit order of the characters used in keys
CodeOrder == <<",">> \o DigitChars \o UpperAlpha \o <<"_">> \o LowerAlpha

CharCode(c) == CHOOSE i \in DOMAIN CodeOrder : CodeOrder[i] = c

\* a < b as strings, by code units
RECURSIVE StringLess(_, _)
StringLess(a, b) ==
    IF Len(b) = 0 THEN FALSE
    ELSE IF Len(a) = 0 THEN TRUE
    ELSE IF Head(a) = Head(b) THEN StringLess(Tail(a), Tail(b))
    ELSE CharCode(Head(a)) < CharCode(Head(b))

\* Array.prototype.sort() of distinct strings
RECURSIVE sort(_)
sort(strings) ==
    IF Len(strings) = 0 THEN <<>>
    ELSE LET i == CHOOSE j \in DOMAIN strings :
                     \A k \in DOMAIN strings : k = j \/ StringLess(strings[j], strings[k])
         IN  <<strings[i]>> \o sort([k \in 1..(Len(strings) - 1) |->
                                       IF k < i THEN strings[k] ELSE strings[k + 1]])

\* Object.keys(frontmatter).sort().join(',')
SortedKeysJoined(frontmatter) == join(sort(frontmatter.ks), <<",">>)

\* the set of top-level keys of a frontmatter Mapping
KeySet(frontmatter) == DOMAIN frontmatter.m

RECURSIVE MapFromKeys(_, _)
MapFromKeys(keys, value) ==
    IF Len(keys) = 0 THEN EmptyMap
    ELSE PutOwn(MapFromKeys(SubSeq(keys, 1, Len(keys) - 1), value), keys[Len(keys)], value)

Doc(hasFrontmatter, frontmatter) == [hasFrontmatter |-> hasFrontmatter, frontmatter |-> frontmatter]

\* the documents the user can leave in the editor
DocSet ==
    {Doc(FALSE, EmptyMap)} \cup
    { Doc(TRUE, MapFromKeys(ks, v)) :
        ks \in {<<>>, <<sA>>, <<sB>>, <<sCommaKey>>, <<sA, sB>>, <<sA, sCommaKey>>,
                <<sB, sCommaKey>>, <<sA, sB, sCommaKey>>},
        v \in {Str(<<"x">>), Str(<<>>)} }

\* the inputs of the modal: one per scanned variable
VariableNames == <<sA, sB>>

\* the changes saveAll collects, in the order of the inputs
ChangeLists == {<<>>, <<sA>>, <<sB>>, <<sA, sB>>}

\* the number of user edits while the modal is open
MaxEdits == 2

NoModal ==
    [phase |-> "none", frontmatter |-> EmptyMap, liveAtSave |-> EmptyMap,
     wrote |-> FALSE, notices |-> <<>>]

\* listAllVariables: snapshot the frontmatter parsed from the editor content and open the modal
ListAllVariables ==
    /\ modal.phase = "none"
    /\ modal' = [NoModal EXCEPT !.phase = "open", !.frontmatter = doc.frontmatter]
    /\ UNCHANGED <<data, lastOp, patternCache, lastPattern, nCalls, doc, nEdits, rn, scan, block, walk, flow, deb>>

\* the user edits the document while the modal is open
EditDocument(newDoc) ==
    /\ modal.phase = "open"
    /\ nEdits < MaxEdits
    /\ newDoc # doc
    /\ doc' = newDoc
    /\ nEdits' = nEdits + 1
    /\ UNCHANGED <<data, lastOp, patternCache, lastPattern, nCalls, modal, rn, scan, block, walk, flow, deb>>

\* `for (const [varName, value] of Object.entries(changes)) setNestedValue(...)`
RECURSIVE ApplyChanges(_, _, _)

\* the rest of the loop after one setNestedValue call returned r
ApplyRest(r, changes, value) ==
    IF r.st = "throw" THEN r ELSE ApplyChanges(r.n, Tail(changes), value)

ApplyChanges(frontmatter, changes, value) ==
    IF Len(changes) = 0 THEN [n |-> frontmatter, st |-> "ok"]
    ELSE ApplyRest(Plugin_setNestedValue(frontmatter, Head(changes), value, TRUE, FALSE),
                   changes, value)

\* applyChangesToFrontmatter: what it does to the document, and what it notifies
applyChangesToFrontmatter(snapshot, live, changes, value, stringifyFails) ==
    IF SortedKeysJoined(snapshot) # SortedKeysJoined(live.frontmatter)
    THEN [doc |-> live, wrote |-> FALSE,
          notices |-> <<"Document changed while editing">>]
    ELSE IF stringifyFails
    THEN [doc |-> live, wrote |-> FALSE, notices |-> <<"Failed to save">>]
    ELSE [doc |-> Doc(TRUE, ApplyChanges(IF live.hasFrontmatter THEN live.frontmatter
                                         ELSE EmptyMap,
                                         changes, value).n),
          wrote |-> TRUE, notices |-> <<>>]

\* saveAll: collect the changed inputs, apply them, close, notify
SaveAll(changes, value, stringifyFails) ==
    /\ modal.phase = "open"
    /\ IF Len(changes) = 0
       THEN /\ modal' = [modal EXCEPT !.phase = "closed", !.liveAtSave = doc.frontmatter,
                                      !.notices = <<"No changes to save">>]
            /\ doc' = doc
       ELSE \E r \in {applyChangesToFrontmatter(modal.frontmatter, doc, changes, value,
                                                 stringifyFails)} :
                /\ modal' = [modal EXCEPT !.phase = "closed", !.liveAtSave = doc.frontmatter,
                                          !.wrote = r.wrote,
                                          !.notices = r.notices \o <<"Updated">>]
                /\ doc' = r.doc
    /\ UNCHANGED <<data, lastOp, patternCache, lastPattern, nCalls, nEdits, rn, scan, block, walk, flow, deb>>

\* C3: if the set of top-level keys parsed from the live content at save time
\* differs from the key set of the snapshot taken when the modal was opened,
\* applyChangesToFrontmatter performs no write to the document.
C3_KeySetMismatchAbortsWrite ==
    (modal.phase = "closed" /\ KeySet(modal.liveAtSave) # KeySet(modal.frontmatter))
        => ~modal.wrote

(***************************************************************************)
(* replaceInDocumentAndFilename (src/src/commands/replaceCommands.ts)      *)
(* One action per stretch of code between two awaits.  The counts are the  *)
(* results of replaceVariables over the body and over the file name; the   *)
(* outcomes of fs.stat, fs.rename and editor.edit are the environment's.   *)
(***************************************************************************)
\* the largest replacementCount / missingCount of one replaceVariables result
MaxCount == 2

NoRename ==
    [pc |-> "none", docReplaced |-> 0, docMissing |-> 0, nameReplaced |-> 0,
     nameDiffers |-> FALSE, sanitized |-> FALSE,
     hasDocChanges |-> FALSE, hasFilenameChanges |-> FALSE,
     targetExists |-> FALSE, renameFailed |-> FALSE, filenameReplaced |-> FALSE,
     fileRenamed |-> FALSE, bodyReplaced |-> FALSE, log |-> <<>>, notices |-> <<>>]

\* lines 210-225: the closing notification
FinalMessage(r) ==
    IF r.docReplaced > 0 \/ r.filenameReplaced \/ r.docMissing > 0
    THEN <<"Replaced/renamed">> ELSE <<>>

\* lines 193-208, up to the await of editor.edit
ThenModifyDocument(r) ==
    IF r.hasDocChanges
    THEN [r EXCEPT !.pc = "edit"]
    ELSE [r EXCEPT !.pc = "done", !.notices = r.notices \o FinalMessage(r)]

\* lines 123-175: guards, the two replaceVariables results, and the sanitized name
ReplaceInDocumentAndFilename(docReplaced, docMissing, nameReplaced, nameDiffers, sanitized) ==
    /\ rn.pc = "start"
    /\ LET hasDocChanges == docReplaced > 0 \/ docMissing > 0
           hasFilenameChanges == nameReplaced > 0 /\ nameDiffers
           r == [rn EXCEPT !.docReplaced = docReplaced, !.docMissing = docMissing,
                           !.nameReplaced = nameReplaced, !.nameDiffers = nameDiffers,
                           !.sanitized = sanitized,
                           !.hasDocChanges = hasDocChanges,
                           !.hasFilenameChanges = hasFilenameChanges]
       IN  rn' = IF ~hasDocChanges /\ ~hasFilenameChanges
                 THEN [r EXCEPT !.pc = "done", !.notices = <<"No variables found">>]
                 ELSE IF hasFilenameChanges /\ sanitized
                 THEN [r EXCEPT !.pc = "stat", !.log = Append(r.log, "stat")]
                 ELSE ThenModifyDocument(r)
    /\ UNCHANGED <<data, lastOp, patternCache, lastPattern, nCalls, modal, doc, nEdits, scan, block, walk, flow, deb>>

\* lines 174-181: fs.stat resolved (the target exists) or rejected
StatSettled(exists) ==
    /\ rn.pc = "stat"
    /\ rn' = IF exists
             THEN [rn EXCEPT !.pc = "done", !.targetExists = TRUE,
                             !.notices = Append(rn.notices, "Cannot rename: already exists")]
             ELSE [rn EXCEPT !.pc = "rename", !.log = Append(rn.log, "rename")]
    /\ UNCHANGED <<data, lastOp, patternCache, lastPattern, nCalls, modal, doc, nEdits, scan, block, walk, flow, deb>>

\* a rename whose failure does not end the operation
RenameSettled_noAbort(ok) ==
    /\ rn.pc = "rename"
    /\ rn' = IF ok
             THEN ThenModifyDocument([rn EXCEPT !.fileRenamed = TRUE, !.filenameReplaced = TRUE])
             ELSE ThenModifyDocument([rn EXCEPT !.renameFailed = TRUE,
                                                !.notices = Append(rn.notices, "Failed to rename file")])
    /\ UNCHANGED <<data, lastOp, patternCache, lastPattern, nCalls, modal, doc, nEdits, scan, block, walk, flow, deb>>

\* lines 181-191: fs.rename resolved or rejected
RenameSettled(ok) ==
    /\ rn.pc = "rename"
    /\ rn' = IF ok
             THEN ThenModifyDocument([rn EXCEPT !.fileRenamed = TRUE, !.filenameReplaced = TRUE])
             ELSE [rn EXCEPT !.pc = "done", !.renameFailed = TRUE,
                             !.notices = Append(rn.notices, "Failed to rename file")]
    /\ UNCHANGED <<data, lastOp, patternCache, lastPattern, nCalls, modal, doc, nEdits, scan, block, walk, flow, deb>>

\* lines 197-229: editor.edit resolved true ("applied"), resolved false
\* ("refused", the result is not looked at) or rejected ("threw", caught at line 226)
EditSettled(outcome) ==
    /\ rn.pc = "edit"
    /\ rn' = IF outcome = "threw"
             THEN [rn EXCEPT !.pc = "done", !.log = Append(rn.log, "edit"),
                             !.notices = Append(rn.notices, "Failed to replace variables")]
             ELSE [rn EXCEPT !.pc = "done", !.log = Append(rn.log, "edit"),
                             !.bodyReplaced = (outcome = "applied"),
                             !.notices = rn.notices \o FinalMessage(rn)]
    /\ UNCHANGED <<data, lastOp, patternCache, lastPattern, nCalls, modal, doc, nEdits, scan, block, walk, flow, deb>>

\* C4: in every terminal state in which both a filename change and a body
\* change were computed as needed, either the file has been renamed and the
\* body replaced, or neither has happened.
C4_RenameAndBodyAllOrNothing ==
    (rn.pc = "done" /\ rn.hasFilenameChanges /\ rn.hasDocChanges)
        => (rn.fileRenamed <=> rn.bodyReplaced)

IsSpace(c) == c \in {" ", "\t", "\n", "\r"}

\* the regex class [\w.\[\]\-]
IsNameChar(c) == IsWordChar(c) \/ c \in {".", "[", "]", "-"}

\* the regex atom . (no line terminator)
IsDot(c) == c \notin {"\n", "\r"}

\* the characters an escaped token matches: \x matches x
RECURSIVE Literal(_)
Literal(escaped) ==
    IF Len(escaped) = 0 THEN <<>>
    ELSE IF Head(escaped) = "\\" /\ Len(escaped) >= 2
    THEN <<escaped[2]>> \o Literal(SubSeq(escaped, 3, Len(escaped)))
    ELSE <<Head(escaped)>> \o Literal(Tail(escaped))

\* the literal lit occurs in text at position p
LitAt(text, lit, p) ==
    /\ p + Len(lit) - 1 <= Len(text)
    /\ \A k \in 1..Len(lit) : text[p + k - 1] = lit[k]

\* the end of the run of \s characters that starts at position p
RECURSIVE SpaceRunEnd(_, _)
SpaceRunEnd(text, p) ==
    IF p <= Len(text) /\ IsSpace(text[p]) THEN SpaceRunEnd(text, p + 1) ELSE p

\* the end of the run of name characters that starts at position p
RECURSIVE NameRunEnd(_, _)
NameRunEnd(text, p) ==
    IF p <= Len(text) /\ IsNameChar(text[p]) THEN NameRunEnd(text, p + 1) ELSE p

\* the end of the run of . characters that starts at position p
RECURSIVE DotRunEnd(_, _)
DotRunEnd(text, p) ==
    IF p <= Len(text) /\ IsDot(text[p]) THEN DotRunEnd(text, p + 1) ELSE p

MaxOf(S) == CHOOSE x \in S : \A y \in S : y <= x
MinOf(S) == CHOOSE x \in S : \A y \in S : x <= y

\* \s* close from position p: the position after the close token, 0 when it fails
CloseFrom(text, close, p) ==
    LET Q == { q \in p..SpaceRunEnd(text, p) : LitAt(text, close, q) }
    IN  IF Q = {} THEN 0 ELSE MaxOf(Q) + Len(close)

NoGroup == [ok |-> FALSE, from |-> 0, to |-> 0, end |-> 0]

\* the ends of the lazy run (.*?) from position r after which \s* close matches
Ds(text, close, r) == { d \in r..DotRunEnd(text, r) : CloseFrom(text, close, d) # 0 }

\* the ends of the greedy run \s* from position s0 after which the rest matches
Rs(text, close, s0) == { r \in s0..SpaceRunEnd(text, s0) : Ds(text, close, r) # {} }

\* the group with its default captured from r up to d
GroupAt(text, close, r, d) ==
    [ok |-> TRUE, from |-> r, to |-> d, end |-> CloseFrom(text, close, d)]

\* the longest \s* run, then the shortest (.*?) run
GroupOf(text, close, rs) ==
    IF rs = {} THEN NoGroup
    ELSE GroupAt(text, close, MaxOf(rs), MinOf(Ds(text, close, MaxOf(rs))))

\* sep \s* (.*?) \s* close from position p
GroupFrom(text, sep, close, p) ==
    IF ~LitAt(text, sep, p) THEN NoGroup
    ELSE GroupOf(text, close, Rs(text, close, p + Len(sep)))

NoMatch ==
    [ok |-> FALSE, index |-> 0, end |-> 0, name |-> <<>>, hasDefault |-> FALSE,
     default |-> <<>>, full |-> <<>>]

\* the optional group or the bare close matches at position w
TailOk(text, sep, close, w) ==
    GroupFrom(text, sep, close, w).ok \/ CloseFrom(text, close, w) # 0

\* the ends of the \s* run after the name, of the name run, and of the \s* run
\* after the open delimiter, after which the rest of the expression matches
Ws(text, sep, close, e) == { w \in e..SpaceRunEnd(text, e) : TailOk(text, sep, close, w) }
Es(text, sep, close, a) == { e \in (a + 1)..NameRunEnd(text, a) : Ws(text, sep, close, e) # {} }
As(text, sep, close, n0) == { a \in n0..SpaceRunEnd(text, n0) : Es(text, sep, close, a) # {} }

\* the match with its name in a..e-1, its optional group g, and the end of a bare close
MatchOf(text, i, a, e, g, closeEnd) ==
    [ok |-> TRUE, index |-> i - 1, end |-> (IF g.ok THEN g.end ELSE closeEnd) - 1,
     name |-> SubSeq(text, a, e - 1),
     hasDefault |-> g.ok,
     default |-> IF g.ok THEN SubSeq(text, g.from, g.to - 1) ELSE <<>>,
     full |-> SubSeq(text, i, (IF g.ok THEN g.end ELSE closeEnd) - 1)]

\* every greedy run takes its longest end that lets the rest match
MatchTail(text, sep, close, i, a, e, w) ==
    MatchOf(text, i, a, e, GroupFrom(text, sep, close, w), CloseFrom(text, close, w))
MatchName(text, sep, close, i, a, e) ==
    MatchTail(text, sep, close, i, a, e, MaxOf(Ws(text, sep, close, e)))
MatchSpace(text, sep, close, i, a) ==
    MatchName(text, sep, close, i, a, MaxOf(Es(text, sep, close, a)))
MatchOpen(text, open, sep, close, i, as) ==
    IF ~LitAt(text, open, i) \/ as = {} THEN NoMatch
    ELSE MatchSpace(text, sep, close, i, MaxOf(as))

\* the match of the whole expression starting at position i
MatchFrom(text, pattern, i) ==
    MatchOpen(text, Literal(pattern.open), Literal(pattern.sep), Literal(pattern.close), i,
              As(text, Literal(pattern.sep), Literal(pattern.close),
                 i + Len(Literal(pattern.open))))

RECURSIVE execFrom(_, _, _)

\* the match at position i if there is one, else the leftmost match after it
MatchOrNext(match, text, pattern, i) ==
    IF match.ok THEN match ELSE execFrom(text, pattern, i + 1)

\* pattern.exec(text) with pattern.lastIndex = lastIndex: the leftmost match
execFrom(text, pattern, i) ==
    IF i > Len(text) + 1 THEN NoMatch
    ELSE MatchOrNext(MatchFrom(text, pattern, i), text, pattern, i)

exec(text, pattern, lastIndex) == execFrom(text, pattern, lastIndex + 1)

RECURSIVE execAll(_, _, _)

\* a match followed by the matches after its end
MatchesFrom(match, text, pattern) ==
    IF ~match.ok THEN <<>>
    ELSE <<match>> \o execAll(text, pattern, match.end)

\* the matches of `while ((match = pattern.exec(text)) !== null)`, and of
\* text.replace(pattern, ...) with the g flag
execAll(text, pattern, lastIndex) == MatchesFrom(exec(text, pattern, lastIndex), text, pattern)

\* String.prototype.trim
RECURSIVE trim(_)
trim(s) ==
    IF Len(s) = 0 THEN s
    ELSE IF IsSpace(Head(s)) THEN trim(Tail(s))
    ELSE IF IsSpace(s[Len(s)]) THEN trim(SubSeq(s, 1, Len(s) - 1))
    ELSE s

(***************************************************************************)
(* Substitution Engine (src/src/variableReplacer.ts, replaceVariables)     *)
(***************************************************************************)
\* PluginSettings as read by the engine
EngineSettings(open, close, sep, caseInsensitive, arrayJoinSeparator, preserveOriginalOnMissing, missingValueText) ==
    [openDelimiter |-> open, closeDelimiter |-> close, defaultSeparator |-> sep,
     caseInsensitive |-> caseInsensitive, arrayJoinSeparator |-> arrayJoinSeparator,
     preserveOriginalOnMissing |-> preserveOriginalOnMissing,
     missingValueText |-> missingValueText]

\* the three delimiter settings of an engine configuration
DelimitersOf(settings) ==
    Settings(settings.openDelimiter, settings.closeDelimiter, settings.defaultSeparator)

RECURSIVE StringOf(_)
RECURSIVE joinValues(_, _)

\* String(value)
StringOf(value) ==
    CASE value.t = "undef" -> <<"u", "n", "d", "e", "f", "i", "n", "e", "d">>
      [] value.t = "null" -> <<"n", "u", "l", "l">>
      [] value.t \in {"str", "num", "bool"} -> value.v
      [] value.t = "fn" -> <<"f", "u", "n", "c", "t", "i", "o", "n", " ", "(", ")", " ", "{", " ", "[", "n", "a", "t", "i", "v", "e", " ", "c", "o", "d", "e", "]", " ", "}">>
      [] value.t = "seq" -> joinValues(value.e, <<",">>)
      [] value.t = "map" -> <<"[", "o", "b", "j", "e", "c", "t", " ", "O", "b", "j", "e", "c", "t", "]">>

\* Array.prototype.join: null and undefined elements give the empty string
joinValues(es, separator) ==
    IF Len(es) = 0 THEN <<>>
    ELSE (IF es[1].t \in {"undef", "null"} THEN <<>> ELSE StringOf(es[1]))
         \o (IF Len(es) > 1 THEN separator \o joinValues(Tail(es), separator) ELSE <<>>)

\* the quoted form of a string in JSON
RECURSIVE jsonQuoteChars(_)
jsonQuoteChars(s) ==
    IF Len(s) = 0 THEN <<>>
    ELSE (IF Head(s) \in {"\"", "\\"} THEN <<"\\", Head(s)>>
          ELSE IF Head(s) = "\n" THEN <<"\\", "n">>
          ELSE IF Head(s) = "\r" THEN <<"\\", "r">>
          ELSE IF Head(s) = "\t" THEN <<"\\", "t">>
          ELSE <<Head(s)>>)
         \o jsonQuoteChars(Tail(s))

jsonQuote(s) == <<"\"">> \o jsonQuoteChars(s) \o <<"\"">>

RECURSIVE JSONStringify(_)
RECURSIVE jsonElements(_)
RECURSIVE jsonMembers(_, _, _)

\* JSON.stringify(value) for a value that is not undefined or a function
JSONStringify(value) ==
    CASE value.t = "str" -> jsonQuote(value.v)
      [] value.t \in {"num", "bool"} -> value.v
      [] value.t \in {"null", "undef", "fn"} -> <<"n", "u", "l", "l">>
      [] value.t = "seq" -> <<"[">> \o jsonElements(value.e) \o <<"]">>
      [] value.t = "map" -> <<"{">> \o jsonMembers(value, 1, TRUE) \o <<"}">>

jsonElements(es) ==
    IF Len(es) = 0 THEN <<>>
    ELSE JSONStringify(es[1]) \o (IF Len(es) > 1 THEN <<",">> \o jsonElements(Tail(es)) ELSE <<>>)

\* the members of an object in key order; undefined and function members are left out
jsonMembers(obj, i, first) ==
    IF i > Len(obj.ks) THEN <<>>
    ELSE LET k == obj.ks[i]
             x == obj.m[k]
         IN  IF x.t \in {"undef", "fn"} THEN jsonMembers(obj, i + 1, first)
             ELSE (IF first THEN <<>> ELSE <<",">>)
                  \o jsonQuote(k) \o <<":">> \o JSONStringify(x)
                  \o jsonMembers(obj, i + 1, FALSE)

\* the text emitted for a value found in the data
FormatValue(value, settings) ==
    IF IsArray(value)
    THEN joinValues(value.e, IF settings.arrayJoinSeparator = <<>> THEN <<",", " ">>
                             ELSE settings.arrayJoinSeparator)
    ELSE IF value.t = "map" THEN JSONStringify(value)
    ELSE StringOf(value)

\* the test without its empty-string clause
IsPresent_emptyCounts(value) == value.t \notin {"undef", "null"}

\* value !== undefined && value !== null && value !== ''
IsPresent(value) ==
    /\ value.t \notin {"undef", "null"}
    /\ ~(value.t = "str" /\ value.v = <<>>)

\* the status rule with the default tested before the value
StatusOf_defaultFirst(value, hasDefault) ==
    IF hasDefault THEN "has-default"
    ELSE IF IsPresent(value) THEN "exists"
    ELSE "missing"

\* the status rule shared by the scanner and the decorations
StatusOf(value, hasDefault) ==
    IF IsPresent(value) THEN "exists"
    ELSE IF hasDefault THEN "has-default"
    ELSE "missing"

\* what the callback returns for a match whose name resolved to value
CallbackOf(match, value, settings) ==
    IF IsPresent(value)
    THEN [kind |-> "value", text |-> FormatValue(value, settings), value |-> value]
    ELSE IF match.hasDefault
    THEN [kind |-> "default", text |-> match.default, value |-> value]
    ELSE [kind |-> "missing",
          text |-> IF settings.preserveOriginalOnMissing THEN match.full
                   ELSE settings.missingValueText,
          value |-> value]

\* the replace callback for one match: what it returns and which counter it bumps
ReplaceCallback(match, frontmatter, settings) ==
    CallbackOf(match, getNestedValue(frontmatter, trim(match.name), settings.caseInsensitive),
               settings)

RECURSIVE Splice(_, _, _, _, _)

\* the splice without the text that follows the last match
Splice_dropsTail(text, matches, outcomes, k, pos) ==
    IF k > Len(matches) THEN <<>>
    ELSE SubSeq(text, pos + 1, matches[k].index) \o outcomes[k].text
         \o Splice(text, matches, outcomes, k + 1, matches[k].end)

\* the text with every match replaced by its callback's return value
Splice(text, matches, outcomes, k, pos) ==
    IF k > Len(matches) THEN SubSeq(text, pos + 1, Len(text))
    ELSE SubSeq(text, pos + 1, matches[k].index) \o outcomes[k].text
         \o Splice(text, matches, outcomes, k + 1, matches[k].end)

\* the result object, given the matches and what the callback returned for each
ReplaceResult(text, matches, outcomes, cache) ==
    [result |-> Splice(text, matches, outcomes, 1, 0),
     replacementCount |->
         Cardinality({ k \in DOMAIN outcomes : outcomes[k].kind \in {"value", "default"} }),
     missingCount |-> Cardinality({ k \in DOMAIN outcomes : outcomes[k].kind = "missing" }),
     matches |-> matches,
     outcomes |-> outcomes,
     cache |-> cache]

\* text.replace(pattern, callback)
ReplaceMatches(text, frontmatter, settings, matches, cache) ==
    ReplaceResult(text, matches,
                  [k \in DOMAIN matches |-> ReplaceCallback(matches[k], frontmatter, settings)],
                  cache)

\* the replacement under the pattern that getVariablePattern returned
ReplaceWith(text, frontmatter, settings, got) ==
    ReplaceMatches(text, frontmatter, settings, execAll(text, got.pattern, 0), got.cache)

replaceVariables(text, frontmatter, settings, cache) ==
    ReplaceWith(text, frontmatter, settings, getVariablePattern(cache, DelimitersOf(settings)))

(***************************************************************************)
(* Inputs of the text operations                                           *)
(***************************************************************************)
sV == <<"v">>
sD == <<"d">>
sK == <<"k">>
sMissingText == <<"?">>

\* a placeholder in the default delimiters, without and with a default
Ph(name) == sOpen \o name \o sClose
PhD(name, default) == sOpen \o name \o sColon \o default \o sClose

\* bodies: one placeholder, repeated names with different defaults, padded and
\* multi-line placeholders, nested and indexed names, plain text, and delimiters
\* around no name or around two words
Bodies ==
    { Ph(sA),
      PhD(sA, sD),
      PhD(sA, <<>>),
      <<"{", "{", " ", "a", " ", ":", " ", "d", " ", "}", "}">>,
      Ph(sA) \o Ph(sB),
      <<"x">> \o Ph(sA) \o <<"y">> \o PhD(sA, sD) \o <<"z">>,
      PhD(sA, sD) \o <<"\n">> \o Ph(sA),
      Ph(sB) \o Ph(sA) \o PhD(sB, sD) \o PhD(sA, sD),
      Ph(<<"a", ".", "k">>),
      Ph(<<"a", "[", "1", "]">>),
      Ph(sUpperA) \o Ph(sA),
      <<"{", "{", "a", "\n", "}", "}">>,
      <<"p", "l", "a", "i", "n", " ", "{", "t", "e", "x", "t", "}">>,
      <<"{", "{", "}", "}">>,
      <<"{", "{", " ", "a", " ", "b", "}", "}">> }

\* the values the key a takes in the frontmatter
AValues ==
    { Str(sV), Str(<<>>), Null, Num(0), Bool(FALSE),
      SeqOf(<<Str(<<"x">>), Null, Str(<<"y">>)>>), EmptySeq, MapOf1(sK, Str(sV)) }

BValues == { Num(0), Str(<<>>) }

Frontmatters ==
    {EmptyMap, MapOf1(sUpperA, Str(sV))}
        \cup { MapOf2(sA, x, sB, y) : x \in AValues, y \in BValues }

EngineSettingsSet ==
    { EngineSettings(sOpen, sClose, sColon, ci, js, preserve, sMissingText) :
          ci \in BOOLEAN, js \in {<<>>, <<";">>}, preserve \in BOOLEAN }

NoScan ==
    [op |-> "none", text |-> <<>>, frontmatter |-> EmptyMap,
     settings |-> EngineSettings(sOpen, sClose, sColon, FALSE, <<>>, FALSE, sMissingText),
     out |-> <<>>]

\* replaceVariables(text, frontmatter, settings)
ReplaceVariables(text, frontmatter, settings) ==
    /\ scan.op = "none"
    /\ \E r \in {replaceVariables(text, frontmatter, settings, patternCache)} :
           /\ scan' = [op |-> "replace", text |-> text, frontmatter |-> frontmatter,
                       settings |-> settings,
                       out |-> [result |-> r.result,
                                replacementCount |-> r.replacementCount,
                                missingCount |-> r.missingCount,
                                matches |-> r.matches,
                                outcomes |-> r.outcomes]]
           /\ patternCache' = r.cache
    /\ UNCHANGED <<data, lastOp, lastPattern, nCalls, modal, doc, nEdits, rn, block, walk, flow, deb>>

\* the frontmatter with every empty-string value at the top level made null
BlankAsNull(frontmatter) ==
    [frontmatter EXCEPT !.m = [k \in DOMAIN frontmatter.m |->
        IF frontmatter.m[k] = Str(<<>>) THEN Null ELSE frontmatter.m[k]]]

\* C11: in replaceVariables a placeholder whose name resolves to the empty
\* string is handled exactly like one that resolves to Absent or Null: the
\* captured default replaces the span and counts as a replacement, otherwise
\* missingCount is incremented and the span becomes missingValueText (or stays
\* as written under preserveOriginalOnMissing); every other resolved value,
\* 0 and false included, is emitted from the data and counted as a
\* replacement; so the call gives the same result and counts when every
\* empty string of the data is null instead.
C11_EmptyStringIsMissing ==
    scan.op = "replace" =>
        LET out == scan.out
            settings == scan.settings
            asNull == replaceVariables(scan.text, BlankAsNull(scan.frontmatter), settings, NullCache)
        IN  /\ \A k \in DOMAIN out.outcomes :
                  LET o == out.outcomes[k]
                      match == out.matches[k]
                  IN  IF o.value \in {Absent, Null, Str(<<>>)}
                      THEN IF match.hasDefault
                           THEN o.kind = "default" /\ o.text = match.default
                           ELSE /\ o.kind = "missing"
                                /\ o.text = IF settings.preserveOriginalOnMissing
                                            THEN match.full ELSE settings.missingValueText
                      ELSE /\ o.kind = "value"
                           /\ o.value = Num(0) => o.text = <<"0">>
                           /\ o.value = Bool(FALSE) => o.text = <<"f", "a", "l", "s", "e">>
                           /\ o.value = Str(sV) => o.text = sV
            /\ out.replacementCount + out.missingCount = Len(out.matches)
            /\ out.missingCount =
                   Cardinality({ k \in DOMAIN out.outcomes :
                                   /\ out.outcomes[k].value \in {Absent, Null, Str(<<>>)}
                                   /\ ~out.matches[k].hasDefault })
            /\ asNull.result = out.result
            /\ asNull.replacementCount = out.replacementCount
            /\ asNull.missingCount = out.missingCount

\* C11 witness: one call in which a name resolving to the empty string was
\* counted missing, the same name took its default at another occurrence, and
\* a name resolving to 0 was emitted
C11_Witness ==
    /\ scan.op = "replace"
    /\ \E k \in DOMAIN scan.out.outcomes :
          scan.out.outcomes[k].value = Str(<<>>) /\ scan.out.outcomes[k].kind = "missing"
    /\ \E k \in DOMAIN scan.out.outcomes :
          scan.out.outcomes[k].value = Str(<<>>) /\ scan.out.outcomes[k].kind = "default"
    /\ \E k \in DOMAIN scan.out.outcomes :
          scan.out.outcomes[k].value = Num(0) /\ scan.out.outcomes[k].kind = "value"

(***************************************************************************)
(* Data-only leaf collection (src/main.js, scanDocumentVariables and       *)
(* collectFrontmatterProperties).  The frontmatter is an object graph:     *)
(* a heap of Mappings addressed by identity, whose members are leaves or   *)
(* references to Mappings, so that one Mapping can be reached by several   *)
(* key paths and can contain itself.  The recursion is run one loop        *)
(* iteration at a time on an explicit call stack.                          *)
(***************************************************************************)
\* the number of Mappings in the object graph
MaxNodes == 3

HeapNodes == 1..MaxNodes

\* the identity of the root Mapping
RootNode == 1

sTags == <<"t", "a", "g", "s">>
sPosition == <<"p", "o", "s", "i", "t", "i", "o", "n">>
sCssclasses == <<"c", "s", "s", "c", "l", "a", "s", "s", "e", "s">>
sAliases == <<"a", "l", "i", "a", "s", "e", "s">>

\* the Obsidian metadata keys the collection skips
ReservedKeys == {sPosition, sCssclasses, sTags, sAliases}

\* a member value: a reference to a Mapping, or a leaf
Ref(id) == [ref |-> id, leaf |-> Absent]
Leaf(value) == [ref |-> 0, leaf |-> value]

\* value && typeof value === 'object' && !Array.isArray(value)
IsMappingRef(x) == x.ref # 0

\* what a holds in the root: a leaf or any Mapping, the root included
HeapValues == {Leaf(Str(sV))} \cup { Ref(id) : id \in HeapNodes }

\* what b holds in the root: a leaf, or the Mapping that a can hold as well
SharedValues == {Leaf(Str(sV)), Ref(RootNode + 1)}

\* what k holds in another Mapping: a leaf, the Mapping itself, the next
\* Mapping, or the root
InnerValues(id) ==
    {Leaf(Str(sV)), Ref(id), Ref(RootNode)}
        \cup (IF id < MaxNodes THEN {Ref(id + 1)} ELSE {})

\* the root holds a, b, a reserved key and a forbidden key; every other
\* Mapping holds k and a sequence under b
RootMapping(x, y) ==
    [ks |-> <<sA, sB, sTags, sMixedConstructor>>,
     m |-> (sA :> x) @@ (sB :> y) @@ (sTags :> Leaf(EmptySeq))
               @@ (sMixedConstructor :> Leaf(Str(sV)))]

InnerMapping(z) ==
    [ks |-> <<sK, sB>>, m |-> (sK :> z) @@ (sB :> Leaf(SeqOf(<<Str(sV)>>)))]

Heaps ==
    { [id \in HeapNodes |-> IF id = RootNode THEN RootMapping(x, y) ELSE InnerMapping(zs[id])] :
          x \in HeapValues, y \in SharedValues,
          zs \in { f \in [HeapNodes \ {RootNode} -> HeapValues] :
                      \A id \in HeapNodes \ {RootNode} : f[id] \in InnerValues(id) } }

\* bodies of the scanned document: no placeholder, and placeholders naming leaves
WalkBodies == { <<>>, Ph(sA) \o Ph(<<"a", ".", "k">>) }

NoWalk ==
    [pc |-> "idle", heap |-> [id \in HeapNodes |-> InnerMapping(Leaf(Str(sV)))],
     seenVarNames |-> {}, variables |-> <<>>, stack |-> <<>>, visited |-> {},
     entered |-> [id \in HeapNodes |-> 0]]

\* prefix ? `${prefix}.${key}` : key
FullPath(prefix, key) == IF prefix = <<>> THEN key ELSE prefix \o <<".">> \o key

\* a frontmatter-only Variable
FrontmatterOnly(name) == [name |-> name, status |-> "frontmatter-only", frontmatterOnly |-> TRUE]

\* a Variable found in the body
BodyVariable(match) == [name |-> trim(match.name), status |-> "body", frontmatterOnly |-> FALSE]

\* a call collectFrontmatterProperties(obj, prefix, ...) without the visited test
Enter_noVisited(w, id, prefix) ==
    [w EXCEPT !.visited = w.visited \cup {id},
              !.stack = <<[id |-> id, prefix |-> prefix, i |-> 1]>> \o w.stack,
              !.entered[id] = w.entered[id] + 1]

\* a call collectFrontmatterProperties(obj, prefix, ...): returns at once when
\* obj is in visited, otherwise adds it and starts the loop over its keys
Enter(w, id, prefix) ==
    IF id \in w.visited THEN w
    ELSE [w EXCEPT !.visited = w.visited \cup {id},
                   !.stack = <<[id |-> id, prefix |-> prefix, i |-> 1]>> \o w.stack,
                   !.entered[id] = w.entered[id] + 1]

\* the state of the call when its last frame has returned
Settle(w) == IF w.stack = <<>> THEN [w EXCEPT !.pc = "done"] ELSE w

\* scanDocumentVariables with showFrontmatterOnlyVariables: the body scan, then
\* the call on the root with an empty visited set
ScanFrontmatterOnly(heap, body) ==
    /\ walk.pc = "idle"
    /\ \E matches \in {execAll(body, DefaultPattern, 0)} :
          walk' = Settle(Enter([NoWalk EXCEPT
                                   !.pc = "run", !.heap = heap,
                                   !.seenVarNames = { trim(matches[k].name) : k \in DOMAIN matches },
                                   !.variables = [k \in DOMAIN matches |-> BodyVariable(matches[k])]],
                               RootNode, <<>>))
    /\ UNCHANGED <<coreVars, scan, block, flow, deb>>

\* one iteration of `for (const key of Object.keys(obj))` in the innermost
\* call, or its return when the keys are exhausted
CollectFrontmatterProperties ==
    /\ walk.pc = "run"
    /\ Len(walk.stack) <= MaxNodes   \* the call stack holds each Mapping at most once
    /\ LET frame == Head(walk.stack)
           obj == walk.heap[frame.id]
       IN  IF frame.i > Len(obj.ks)
           THEN walk' = Settle([walk EXCEPT !.stack = Tail(walk.stack)])
           ELSE LET key == obj.ks[frame.i]
                    fullPath == FullPath(frame.prefix, key)
                    value == obj.m[key]
                    next == [walk EXCEPT !.stack[1].i = frame.i + 1]
                IN  IF key \in ReservedKeys \/ toLowerCase(key) \in FORBIDDEN_KEYS
                    THEN walk' = next
                    ELSE IF IsMappingRef(value)
                    THEN walk' = Enter(next, value.ref, fullPath)
                    ELSE IF fullPath \notin walk.seenVarNames
                    THEN walk' = [next EXCEPT !.variables =
                                      Append(walk.variables, FrontmatterOnly(fullPath))]
                    ELSE walk' = next
    /\ UNCHANGED <<coreVars, scan, block, flow, deb>>

\* the leaf paths of the Mapping id under a prefix, through at most depth Mappings
RECURSIVE LeafPathsFrom(_, _, _, _)
LeafPathsFrom(heap, id, prefix, depth) ==
    IF depth = 0 THEN {}
    ELSE UNION { IF key \in ReservedKeys \/ toLowerCase(key) \in FORBIDDEN_KEYS THEN {}
                 ELSE IF IsMappingRef(heap[id].m[key])
                 THEN LeafPathsFrom(heap, heap[id].m[key].ref, FullPath(prefix, key), depth - 1)
                 ELSE {FullPath(prefix, key)} : key \in DOMAIN heap[id].m }

\* the Mappings reachable from id in at most n steps of one or more members
RECURSIVE ReachableFrom(_, _, _)
ReachableFrom(heap, id, n) ==
    IF n = 0 THEN {}
    ELSE LET direct == { heap[id].m[key].ref : key \in { k \in DOMAIN heap[id].m : IsMappingRef(heap[id].m[k]) } }
         IN  direct \cup UNION { ReachableFrom(heap, j, n - 1) : j \in direct }

\* no Mapping contains itself, directly or indirectly
Acyclic(heap) == \A id \in HeapNodes : id \notin ReachableFrom(heap, id, MaxNodes)

FrontmatterOnlyNames(variables) ==
    { k \in DOMAIN variables : variables[k].frontmatterOnly }

\* C12: with the data-only option enabled, when the scan has returned, the
\* result holds exactly one frontmatter-only Variable for each leaf path of
\* the root (through Mappings to a non-Mapping value, skipping forbidden and
\* reserved keys) that is not a placeholder name of the body, and none for
\* any other path; stated for graphs without cycles, where Mappings may be
\* reachable by more than one key path.
C12_DataOnlyCoversEveryLeafPath ==
    (walk.pc = "done" /\ Acyclic(walk.heap)) =>
        LET expected == LeafPathsFrom(walk.heap, RootNode, <<>>, MaxNodes) \ walk.seenVarNames
            found == FrontmatterOnlyNames(walk.variables)
        IN  /\ { walk.variables[k].name : k \in found } = expected
            /\ Cardinality(found) = Cardinality(expected)

\* C19: the data-only leaf collection terminates on every finite object
\* graph, including graphs where a Mapping contains itself directly or
\* indirectly, and the loop over a Mapping's keys is started at most once per
\* Mapping.
C19_CollectionTerminates ==
    /\ [](\A id \in HeapNodes : walk.entered[id] <= 1)
    /\ (walk.pc = "run") ~> (walk.pc = "done")

\* C19 witness: the collection has returned on a graph in which a Mapping
\* other than the root contains itself and was visited
C19_Witness ==
    /\ walk.pc = "done"
    /\ \E id \in HeapNodes \ {RootNode} :
          /\ id \in ReachableFrom(walk.heap, id, MaxNodes)
          /\ walk.entered[id] = 1

(***************************************************************************)
(* Frontmatter block (src/src/frontmatterParser.ts: parseFrontmatter,      *)
(* findFrontmatterEnd).  The three regular expressions are matched on the  *)
(* characters of the text; positions are 1-based, results are lengths.     *)
(***************************************************************************)
sDashes == <<"-", "-", "-">>

\* text.startsWith('---')
startsWith(text, prefix) == LitAt(text, prefix, 1)

\* \r?\n at position p: its length, 0 when it does not match
NewlineAt(text, p) ==
    IF LitAt(text, <<"\r", "\n">>, p) THEN 2
    ELSE IF LitAt(text, <<"\n">>, p) THEN 1
    ELSE 0

\* ^---\r?\n : the length of the opening line, 0 when it does not match
OpeningLine(text) ==
    IF startsWith(text, sDashes) /\ NewlineAt(text, 4) # 0 THEN 3 + NewlineAt(text, 4) ELSE 0

\* ---(?:\r?\n|$) at position p: the length matched, 0 when it does not match
ClosingLineAt(text, p) ==
    IF ~LitAt(text, sDashes, p) THEN 0
    ELSE IF NewlineAt(text, p + 3) # 0 THEN 3 + NewlineAt(text, p + 3)
    ELSE IF p + 3 = Len(text) + 1 THEN 3
    ELSE 0

\* /^---\r?\n---(?:\r?\n|$)/ : the length of the match, 0 when there is none
emptyMatch(text) ==
    LET open == OpeningLine(text)
    IN  IF open # 0 /\ ClosingLineAt(text, open + 1) # 0
        THEN open + ClosingLineAt(text, open + 1)
        ELSE 0

\* [\s\S]*?\r?\n---(?:\r?\n|$) from position p: the end of the shortest match
RECURSIVE lazyToClosingLine(_, _)
lazyToClosingLine(text, p) ==
    IF p > Len(text) THEN 0
    ELSE LET nl == NewlineAt(text, p)
         IN  IF nl # 0 /\ ClosingLineAt(text, p + nl) # 0
             THEN p + nl + ClosingLineAt(text, p + nl) - 1
             ELSE lazyToClosingLine(text, p + 1)

\* ([\s\S]*?)\r?\n--- from position p: the position after the shortest capture
RECURSIVE lazyToDashes(_, _)
lazyToDashes(text, p) ==
    IF p > Len(text) THEN 0
    ELSE LET nl == NewlineAt(text, p)
         IN  IF nl # 0 /\ LitAt(text, sDashes, p + nl) THEN p
             ELSE lazyToDashes(text, p + 1)

\* findFrontmatterEnd without the empty-frontmatter case
findFrontmatterEnd_noEmptyMatch(text) ==
    IF ~startsWith(text, sDashes) THEN 0
    ELSE IF OpeningLine(text) = 0 THEN 0
    ELSE lazyToClosingLine(text, OpeningLine(text) + 1)

findFrontmatterEnd(text) ==
    IF ~startsWith(text, sDashes) THEN 0
    ELSE IF emptyMatch(text) # 0 THEN emptyMatch(text)
    ELSE IF OpeningLine(text) = 0 THEN 0
    ELSE lazyToClosingLine(text, OpeningLine(text) + 1)

\* a line of the block without its carriage return
stripCR(line) ==
    IF Len(line) > 0 /\ line[Len(line)] = "\r" THEN SubSeq(line, 1, Len(line) - 1) ELSE line

\* `key: value` or `key:` with a key of word characters: the position of the colon, else 0
mappingColon(line) ==
    IF \E i \in 2..Len(line) :
           /\ line[i] = ":"
           /\ \A k \in 1..(i - 1) : IsWordChar(line[k])
           /\ (i = Len(line) \/ line[i + 1] = " ")
    THEN CHOOSE i \in 2..Len(line) : line[i] = ":" /\ \A k \in 1..(i - 1) : IsWordChar(line[k])
    ELSE 0

\* the entries of the block's lines added to a Mapping in order
RECURSIVE loadLines(_, _, _)
loadLines(lines, i, acc) ==
    IF i > Len(lines) THEN acc
    ELSE LET line == lines[i]
             c == mappingColon(line)
             value == trim(SubSeq(line, c + 1, Len(line)))
         IN  loadLines(lines, i + 1,
                       PutOwn(acc, SubSeq(line, 1, c - 1),
                              IF value = <<>> THEN Null ELSE Str(value)))

\* yaml.load on a block of `key: value` lines: undefined for an empty
\* document, a Mapping when every line is an entry, a string for one plain
\* line, and an exception otherwise
yamlLoad(blockText) ==
    LET raw == split(blockText, "\n")
        all == [k \in DOMAIN raw |-> stripCR(raw[k])]
        lines == SelectSeq(all, LAMBDA l : trim(l) # <<>>)
    IN  IF lines = <<>> THEN [threw |-> FALSE, value |-> Absent]
        ELSE IF \A k \in DOMAIN lines : mappingColon(lines[k]) # 0
        THEN [threw |-> FALSE, value |-> loadLines(lines, 1, EmptyMap)]
        ELSE IF Len(lines) = 1 /\ \A k \in DOMAIN lines[1] : lines[1][k] # ":"
        THEN [threw |-> FALSE, value |-> Str(trim(lines[1]))]
        ELSE [threw |-> TRUE, value |-> Absent]

\* (yaml.load(text) || {}) inside try/catch
loadOrEmpty(blockText) ==
    LET loaded == yamlLoad(blockText)
    IN  IF loaded.threw \/ Falsy(loaded.value) THEN EmptyMap ELSE loaded.value

parseFrontmatter(text) ==
    IF ~startsWith(text, sDashes) THEN EmptyMap
    ELSE IF emptyMatch(text) # 0 THEN EmptyMap
    ELSE LET open == OpeningLine(text)
             stop == IF open = 0 THEN 0 ELSE lazyToDashes(text, open + 1)
         IN  IF stop = 0 THEN EmptyMap
             ELSE loadOrEmpty(SubSeq(text, open + 1, stop - 1))

\* the number of lines of a document text
MaxLines == 3

LineContents == { sDashes, <<"a", ":", " ", "v">>, <<"-", "-", "-", "x">>, <<>> }

LineTerminators == { <<"\n">>, <<"\r", "\n">> }

TerminatedLines == { l \o t : l \in LineContents, t \in LineTerminators }

\* the texts of at most n terminated lines
RECURSIVE TextsOfLines(_)
TextsOfLines(n) ==
    IF n = 0 THEN {<<>>}
    ELSE TextsOfLines(n - 1) \cup { p \o l : p \in TextsOfLines(n - 1), l \in TerminatedLines }

\* document texts: terminated lines, the last line with or without a terminator
DocumentTexts ==
    TextsOfLines(MaxLines)
        \cup { p \o l : p \in TextsOfLines(MaxLines - 1), l \in LineContents \ {<<>>} }

NoBlock == [op |-> "none", text |-> <<>>, end |-> 0, frontmatter |-> EmptyMap]

\* findFrontmatterEnd(text)
FindFrontmatterEnd(text) ==
    /\ block.op = "none"
    /\ block' = [op |-> "end", text |-> text, end |-> findFrontmatterEnd(text),
                 frontmatter |-> EmptyMap]
    /\ UNCHANGED <<coreVars, scan, walk, flow, deb>>

\* parseFrontmatter(text)
ParseFrontmatter(text) ==
    /\ block.op = "none"
    /\ block' = [op |-> "parse", text |-> text, end |-> 0,
                 frontmatter |-> parseFrontmatter(text)]
    /\ UNCHANGED <<coreVars, scan, walk, flow, deb>>

\* the text between the opening line and the closing line that ends at offset end
BlockBefore(text, end) ==
    LET closing == IF text[end] # "\n" THEN 3
                   ELSE IF text[end - 1] = "\r" THEN 5 ELSE 4
    IN  SubSeq(text, OpeningLine(text) + 1, end - closing)

\* C13: parseFrontmatter and findFrontmatterEnd agree on the block: what
\* parseFrontmatter returns is the parse of the text between the opening ---
\* line and the closing --- line whose end findFrontmatterEnd returns, and it
\* is the empty Mapping whenever findFrontmatterEnd returns 0.
C13_ParseAndEndAgree ==
    block.op = "parse" =>
        LET end == findFrontmatterEnd(block.text)
        IN  /\ end = 0 => block.frontmatter = EmptyMap
            /\ end # 0 => block.frontmatter = loadOrEmpty(BlockBefore(block.text, end))

\* the lines of a text: the pieces between line feeds
LinesOf(text) == split(text, "\n")

\* line k of the text is exactly ---, its terminator (LF or CRLF) aside
IsDashLine(text, k) ==
    LET lines == LinesOf(text)
    IN  IF k < Len(lines) THEN stripCR(lines[k]) = sDashes ELSE lines[k] = sDashes

\* the offset just past line k, its terminator included when present
RECURSIVE OffsetPastLine(_, _)
OffsetPastLine(text, k) ==
    LET lines == LinesOf(text)
    IN  IF k = 0 THEN 0
        ELSE OffsetPastLine(text, k - 1) + Len(lines[k]) + (IF k < Len(lines) THEN 1 ELSE 0)

\* C20: findFrontmatterEnd returns 0 when the text does not begin with a line
\* that is exactly ---, or when no later line is exactly ---; otherwise it
\* returns the offset just past the first later line that is exactly ---,
\* that line's terminator (LF or CRLF) included when present; the offset is
\* never greater than the length of the text.
C20_FrontmatterEndOffset ==
    block.op = "end" =>
        LET text == block.text
            Later == { k \in 2..Len(LinesOf(text)) : IsDashLine(text, k) }
        IN  /\ block.end <= Len(text)
            /\ IF ~IsDashLine(text, 1) \/ Later = {}
               THEN block.end = 0
               ELSE block.end = OffsetPastLine(text, MinOf(Later))

\* C20 witness: a block holding an entry, closed by a CRLF-terminated --- line
C20_Witness ==
    /\ block.op = "end"
    /\ block.end > 0
    /\ block.end = Len(block.text)
    /\ block.text[block.end - 1] = "\r"
    /\ LitAt(block.text, <<"a", ":", " ", "v">>, OpeningLine(block.text) + 1)

(***************************************************************************)
(* Scanner (scanDocumentVariables of src/src/variableReplacer.ts and of    *)
(* src/main.js) and the decorations of src/src/decorationProvider.ts       *)
(***************************************************************************)
\* text.slice(from)
slice(text, from) == SubSeq(text, from + 1, Len(text))

\* the number of line feeds in a text: text.split('\n').length - 1
lineFeeds(text) == Cardinality({ i \in DOMAIN text : text[i] = "\n" })

\* text.lastIndexOf('\n'), -1 when there is none
lastIndexOfLineFeed(text) ==
    IF lineFeeds(text) = 0 THEN -1
    ELSE MaxOf({ i \in DOMAIN text : text[i] = "\n" }) - 1

\* the Variable pushed for one match of the body
VariableOf(match, value, bodyPart, frontmatterLines) ==
    LET textBeforeMatch == SubSeq(bodyPart, 1, match.index)
        lastNewline == lastIndexOfLineFeed(textBeforeMatch)
        charPos == IF lastNewline = -1 THEN match.index ELSE match.index - lastNewline - 1
    IN  [name |-> trim(match.name),
         status |-> StatusOf(value, match.hasDefault),
         value |-> value,
         hasDefault |-> match.hasDefault,
         defaultValue |-> match.default,
         fullMatch |-> match.full,
         line |-> frontmatterLines + lineFeeds(textBeforeMatch),
         start |-> charPos,
         end |-> charPos + Len(match.full)]

\* the exec loop of variableReplacer.ts: a name already in seen is skipped
RECURSIVE scanLoop(_, _, _, _, _, _, _)
scanLoop(matches, k, seen, frontmatter, settings, bodyPart, frontmatterLines) ==
    IF k > Len(matches) THEN <<>>
    ELSE LET varName == trim(matches[k].name)
         IN  IF varName \in seen
             THEN scanLoop(matches, k + 1, seen, frontmatter, settings, bodyPart, frontmatterLines)
             ELSE <<VariableOf(matches[k],
                               getNestedValue(frontmatter, varName, settings.caseInsensitive),
                               bodyPart, frontmatterLines)>>
                  \o scanLoop(matches, k + 1, seen \cup {varName}, frontmatter, settings,
                              bodyPart, frontmatterLines)

scanDocumentVariables(text, frontmatter, frontmatterEnd, settings, cache) ==
    LET bodyPart == slice(text, frontmatterEnd)
        got == getVariablePattern(cache, DelimitersOf(settings))
        frontmatterLines == lineFeeds(SubSeq(text, 1, frontmatterEnd))
    IN  [variables |-> scanLoop(execAll(bodyPart, got.pattern, 0), 1, {}, frontmatter, settings,
                                bodyPart, frontmatterLines),
         cache |-> got.cache]

\* getNestedValue of main.js: one direct key lookup unless supportNestedProperties
Plugin_getNestedValue(obj, path, supportNestedProperties, caseInsensitive) ==
    IF ~supportNestedProperties
    THEN LET fk == findKey(obj, path, caseInsensitive)
         IN  IF NotFound(fk) THEN Absent ELSE GetProp(obj, fk.key)
    ELSE getNestedValueFrom(obj, split(path, "."), 1, caseInsensitive)

\* the exec loop of main.js: every match pushes a Variable
Plugin_scanDocumentVariables(text, supportNestedProperties, settings, cache) ==
    LET frontmatter == parseFrontmatter(text)
        frontmatterEnd == findFrontmatterEnd(text)
        bodyPart == slice(text, frontmatterEnd)
        got == getVariablePattern(cache, DelimitersOf(settings))
        matches == execAll(bodyPart, got.pattern, 0)
        frontmatterLines == lineFeeds(SubSeq(text, 1, frontmatterEnd))
    IN  [variables |-> [k \in DOMAIN matches |->
                          VariableOf(matches[k],
                                     Plugin_getNestedValue(frontmatter, trim(matches[k].name),
                                                           supportNestedProperties,
                                                           settings.caseInsensitive),
                                     bodyPart, frontmatterLines)],
         cache |-> got.cache]

\* the range and decoration type updateDecorations gives one Variable
DecorationOf(variable) ==
    [line |-> variable.line, start |-> variable.start, end |-> variable.end,
     kind |-> variable.status]

\* scanDocumentVariables(text, frontmatter, frontmatterEnd, settings)
ScanDocumentVariables(text, frontmatter, settings) ==
    /\ scan.op = "none"
    /\ \E r \in {scanDocumentVariables(text, frontmatter, 0, settings, patternCache)} :
           /\ scan' = [op |-> "scan", text |-> text, frontmatter |-> frontmatter,
                       settings |-> settings, out |-> [variables |-> r.variables]]
           /\ patternCache' = r.cache
    /\ UNCHANGED <<data, lastOp, lastPattern, nCalls, modal, doc, nEdits, rn, block, walk, flow, deb>>

\* YAMLVariableTemplaterPlugin.scanDocumentVariables(editor, file), data-only option off
Plugin_ScanDocumentVariables(text, supportNestedProperties, settings) ==
    /\ scan.op = "none"
    /\ \E r \in {Plugin_scanDocumentVariables(text, supportNestedProperties, settings,
                                                patternCache)} :
           /\ scan' = [op |-> "pluginScan", text |-> text,
                       frontmatter |-> parseFrontmatter(text),
                       settings |-> settings, out |-> [variables |-> r.variables]]
           /\ patternCache' = r.cache
    /\ UNCHANGED <<data, lastOp, lastPattern, nCalls, modal, doc, nEdits, rn, block, walk, flow, deb>>

\* VariableDecorationProvider.updateDecorations(editor) on a markdown document
UpdateDecorations(text, highlightVariables, settings) ==
    /\ scan.op = "none"
    /\ \E frontmatter \in {parseFrontmatter(text)} :
       \E r \in {scanDocumentVariables(text, frontmatter, findFrontmatterEnd(text), settings,
                                       patternCache)} :
           /\ scan' = [op |-> "decorate", text |-> text, frontmatter |-> frontmatter,
                       settings |-> settings,
                       out |-> [highlightVariables |-> highlightVariables,
                                decorations |->
                                    IF highlightVariables
                                    THEN [k \in DOMAIN r.variables |-> DecorationOf(r.variables[k])]
                                    ELSE <<>>]]
           /\ patternCache' = IF highlightVariables THEN r.cache ELSE patternCache
    /\ UNCHANGED <<data, lastOp, lastPattern, nCalls, modal, doc, nEdits, rn, block, walk, flow, deb>>

\* frontmatter blocks put in front of a body
FrontmatterBlocks ==
    { <<>>,
      <<"-", "-", "-", "\n", "a", ":", " ", "v", "\n", "-", "-", "-", "\n">>,
      <<"-", "-", "-", "\n", "a", ":", "\n", "b", ":", " ", "\\", "\"", "{", "{", "a", "}", "}", "\\", "\"", "\n", "-", "-", "-", "\n">> }

\* whole documents: a frontmatter block followed by a body
Documents == { fm \o body : fm \in FrontmatterBlocks, body \in Bodies }

\* the line and column of the 0-based offset in the text
LineOf(text, offset) == lineFeeds(SubSeq(text, 1, offset))
ColumnOf(text, offset) == offset - (lastIndexOfLineFeed(SubSeq(text, 1, offset)) + 1)

\* the placeholder occurrences of the body of a document
BodyMatches(text, settings) ==
    execAll(slice(text, findFrontmatterEnd(text)), FreshPattern(DelimitersOf(settings)), 0)

\* C14: with highlighting enabled on a markdown document, updateDecorations
\* gives every placeholder occurrence of the body, repeated occurrences of one
\* name included, exactly one decoration, of the kind exists, has-default or
\* missing that is the occurrence's resolution status, and gives none inside
\* the frontmatter block.
C14_EveryOccurrenceDecorated ==
    (scan.op = "decorate" /\ scan.out.highlightVariables) =>
        LET text == scan.text
            end == findFrontmatterEnd(text)
            matches == BodyMatches(text, scan.settings)
            decorations == scan.out.decorations
        IN  /\ \A k \in DOMAIN matches :
                  Cardinality({ i \in DOMAIN decorations :
                      /\ decorations[i].line = LineOf(text, end + matches[k].index)
                      /\ decorations[i].start = ColumnOf(text, end + matches[k].index)
                      /\ decorations[i].kind =
                             StatusOf(getNestedValue(scan.frontmatter, trim(matches[k].name),
                                                     scan.settings.caseInsensitive),
                                      matches[k].hasDefault) }) = 1
            /\ Len(decorations) = Len(matches)
            /\ \A i \in DOMAIN decorations : decorations[i].line >= LineOf(text, end)

\* the index of the first match of the body that has the name
FirstOccurrence(matches, name) ==
    MinOf({ k \in DOMAIN matches : trim(matches[k].name) = name })

\* C15: scanDocumentVariables and replaceVariables classify alike: for every
\* name occurring in the body the scanned Variable has status exists iff
\* replaceVariables replaces the first occurrence of the name with the
\* formatted data value, has-default iff it replaces it with the captured
\* default, and missing iff it counts it in missingCount.
C15_ScanAndReplaceClassifyAlike ==
    scan.op = "scan" =>
        LET replaced == replaceVariables(scan.text, scan.frontmatter, scan.settings, NullCache)
            variables == scan.out.variables
        IN  /\ \A k \in DOMAIN replaced.matches :
                  \E i \in DOMAIN variables : variables[i].name = trim(replaced.matches[k].name)
            /\ \A i \in DOMAIN variables :
                  LET o == replaced.outcomes[FirstOccurrence(replaced.matches, variables[i].name)]
                  IN  /\ variables[i].status = "exists" <=>
                             (o.kind = "value" /\ o.text = FormatValue(variables[i].value, scan.settings))
                      /\ variables[i].status = "has-default" <=>
                             (o.kind = "default" /\ o.text = variables[i].defaultValue)
                      /\ variables[i].status = "missing" <=> o.kind = "missing"

\* C15 witness: one scan with a name that exists and a name that occurs more
\* than once in the body and is missing at its first occurrence
C15_Witness ==
    /\ scan.op = "scan"
    /\ \E i \in DOMAIN scan.out.variables : scan.out.variables[i].status = "exists"
    /\ \E i \in DOMAIN scan.out.variables :
          /\ scan.out.variables[i].status = "missing"
          /\ Cardinality({ k \in DOMAIN BodyMatches(scan.text, scan.settings) :
                             trim(BodyMatches(scan.text, scan.settings)[k].name)
                                 = scan.out.variables[i].name }) > 1

\* C16: the list returned by scanDocumentVariables holds at most one Variable
\* per name, in order of first occurrence, and each Variable's position,
\* defaultValue, fullMatch and status are those of the first (leftmost)
\* occurrence of its name in the body.
C16_OneVariablePerName ==
    scan.op \in {"scan", "pluginScan"} =>
        LET text == scan.text
            end == IF scan.op = "scan" THEN 0 ELSE findFrontmatterEnd(text)
            matches == execAll(slice(text, end), FreshPattern(DelimitersOf(scan.settings)), 0)
            variables == scan.out.variables
        IN  /\ \A i, j \in DOMAIN variables : variables[i].name = variables[j].name => i = j
            /\ \A i, j \in DOMAIN variables :
                  i < j => FirstOccurrence(matches, variables[i].name)
                               < FirstOccurrence(matches, variables[j].name)
            /\ \A i \in DOMAIN variables :
                  LET match == matches[FirstOccurrence(matches, variables[i].name)]
                  IN  /\ variables[i].fullMatch = match.full
                      /\ variables[i].hasDefault = match.hasDefault
                      /\ variables[i].defaultValue = match.default
                      /\ variables[i].line = LineOf(text, end + match.index)
                      /\ variables[i].start = ColumnOf(text, end + match.index)

(***************************************************************************)
(* Write-back flows                                                        *)
(* VS Code: editVariable (src/src/commands/listVariablesCommand.ts) and    *)
(* setVariableCommand (src/unnamed/part_000), both                         *)
(* through updateFrontmatter (src/src/frontmatterParser.ts).  Obsidian:    *)
(* setVariableInFrontmatter and applyChangesToFrontmatter (src/main.js).   *)
(* The document is its frontmatter Mapping, as in the modal.  Whether the  *)
(* serializer throws, what the input box resolves to and whether           *)
(* applyEdit applies the edit are the environment's.                       *)
(***************************************************************************)
NotificationLevels == {"all", "errors", "none"}

Notice(type, message) == [type |-> type, message |-> message]

\* notify(message, type): the notices actually shown under the configured level
notify(message, type, level) ==
    IF type = "error" /\ level # "none" THEN <<Notice(type, message)>>
    ELSE IF level = "all" THEN <<Notice(type, message)>>
    ELSE <<>>

\* what showInputBox resolves to: undefined (cancelled) or the entered text
Cancelled == [given |-> FALSE, text |-> <<>>]
Entered(text) == [given |-> TRUE, text |-> text]
InputResults == {Cancelled, Entered(<<"v">>), Entered(<<>>)}

NoFlow ==
    [pc |-> "idle", cmd |-> "none", level |-> "all", name |-> <<>>,
     snapshot |-> EmptyMap, liveAtWrite |-> Doc(FALSE, EmptyMap),
     reachedWrite |-> FALSE, dumpFailed |-> FALSE, threw |-> FALSE,
     wrote |-> FALSE, applied |-> FALSE, notices |-> <<>>]

\* yaml.dump and the TextEdit, after setNestedValue returned r
EditAfter(r, live, dumpFails) ==
    IF r.st = "throw" \/ dumpFails
    THEN [threw |-> TRUE, doc |-> live]
    ELSE [threw |-> FALSE, doc |-> Doc(TRUE, r.n)]

\* updateFrontmatter(document, {[name]: value}): the edit it returns, or the exception
updateFrontmatter(live, name, value, dumpFails) ==
    EditAfter(setNestedValue(live.frontmatter, name, value), live, dumpFails)

\* listVariablesCommand up to the await in editVariable: the document is scanned,
\* the user accepts one Variable, and the input box opens
ListVariablesCommand(name, level) ==
    /\ flow.pc = "idle"
    /\ flow' = [NoFlow EXCEPT !.pc = "input", !.cmd = "editVariable", !.level = level,
                              !.name = name, !.snapshot = doc.frontmatter]
    /\ UNCHANGED <<coreVars, scan, block, walk, deb>>

\* setVariableCommand up to its await: the Variable under the cursor, the
\* frontmatter parsed for its current value, and the input box opens
SetVariableCommand(name, level) ==
    /\ flow.pc = "idle"
    /\ flow' = [NoFlow EXCEPT !.pc = "input", !.cmd = "setVariableCommand", !.level = level,
                              !.name = name, !.snapshot = doc.frontmatter]
    /\ UNCHANGED <<coreVars, scan, block, walk, deb>>

\* the user edits the document while the input box is open
EditWhileInputOpen(newDoc) ==
    /\ flow.pc = "input"
    /\ nEdits < MaxEdits
    /\ newDoc # doc
    /\ doc' = newDoc
    /\ nEdits' = nEdits + 1
    /\ UNCHANGED <<data, lastOp, patternCache, lastPattern, nCalls, modal, rn,
                   scan, block, walk, flow, deb>>

\* the rest of editVariable / setVariableCommand once showInputBox resolves
InputSettled(newValue, dumpFails, applied) ==
    /\ flow.pc = "input"
    /\ IF ~newValue.given
       THEN /\ flow' = [flow EXCEPT !.pc = "done", !.liveAtWrite = doc]
            /\ doc' = doc
       ELSE \E u \in {updateFrontmatter(doc, flow.name, Str(newValue.text), dumpFails)} :
                IF u.threw
                THEN /\ flow' = [flow EXCEPT !.pc = "done", !.liveAtWrite = doc,
                                             !.reachedWrite = TRUE,
                                             !.dumpFailed = dumpFails, !.threw = TRUE,
                                             !.notices = notify("Failed", "error", flow.level)]
                     /\ doc' = doc
                ELSE /\ flow' = [flow EXCEPT !.pc = "done", !.liveAtWrite = doc,
                                             !.reachedWrite = TRUE,
                                             !.wrote = applied /\ u.doc # doc,
                                             !.applied = applied,
                                             !.notices = notify("Updated", "success", flow.level)]
                     /\ doc' = IF applied THEN u.doc ELSE doc
    /\ UNCHANGED <<data, lastOp, patternCache, lastPattern, nCalls, modal, nEdits, rn,
                   scan, block, walk, deb>>

\* YAMLVariableTemplaterPlugin.setVariableInFrontmatter(editor, varName, value)
SetVariableInFrontmatter(varName, value, stringifyFails, level) ==
    /\ flow.pc = "idle"
    /\ \E r \in {Plugin_setNestedValue(IF doc.hasFrontmatter THEN doc.frontmatter ELSE EmptyMap,
                                        varName, value, TRUE, FALSE)},
          f \in {[NoFlow EXCEPT !.pc = "done", !.cmd = "setVariableInFrontmatter",
                               !.level = level, !.name = varName,
                               !.snapshot = doc.frontmatter, !.liveAtWrite = doc,
                               !.reachedWrite = TRUE]} :
           IF r.st = "throw"
           THEN /\ flow' = [f EXCEPT !.threw = TRUE]
                /\ doc' = doc
           ELSE IF stringifyFails
           THEN /\ flow' = [f EXCEPT !.dumpFailed = TRUE,
                                     !.notices = notify("Failed to update frontmatter",
                                                        "error", level)]
                /\ doc' = doc
           ELSE /\ flow' = [f EXCEPT !.wrote = (Doc(TRUE, r.n) # doc),
                                     !.notices = notify("Set", "success", level)]
                /\ doc' = Doc(TRUE, r.n)
    /\ UNCHANGED <<data, lastOp, patternCache, lastPattern, nCalls, modal, nEdits, rn,
                   scan, block, walk, deb>>

\* ListVariablesModal.applyChangesToFrontmatter(changes) on the content the modal was opened on
ApplyChangesToFrontmatter(changes, value, stringifyFails, level) ==
    /\ flow.pc = "idle"
    /\ Len(changes) > 0
    /\ \E r \in {applyChangesToFrontmatter(doc.frontmatter, doc, changes, value, stringifyFails)} :
           /\ flow' = [NoFlow EXCEPT !.pc = "done", !.cmd = "applyChangesToFrontmatter",
                                     !.level = level, !.snapshot = doc.frontmatter,
                                     !.liveAtWrite = doc, !.reachedWrite = TRUE,
                                     !.dumpFailed = stringifyFails,
                                     !.wrote = r.wrote /\ r.doc # doc,
                                     !.notices = IF r.notices = <<>> THEN <<>>
                                                 ELSE notify("Failed to save", "error",
                                                             level)]
           /\ doc' = r.doc
    /\ UNCHANGED <<data, lastOp, patternCache, lastPattern, nCalls, modal, nEdits, rn,
                   scan, block, walk, deb>>

\* the write-back of a VS Code edit flow has run
IsEditFlow == flow.cmd \in {"editVariable", "setVariableCommand"}

\* C17: in editVariable and setVariableCommand, if the frontmatter key set of
\* the live document at write time differs from the key set observed when
\* the Variable was scanned, the write-back is aborted and the document is
\* not modified.
C17_StaleSnapshotAbortsWrite ==
    (IsEditFlow /\ flow.pc = "done" /\ flow.reachedWrite
        /\ KeySet(flow.liveAtWrite.frontmatter) # KeySet(flow.snapshot))
        => (~flow.wrote /\ doc = flow.liveAtWrite)

\* the failure of the serializer reached the caller: an exception, or an error notice
ErrorOutcome ==
    flow.threw \/ \E i \in DOMAIN flow.notices : flow.notices[i].type = "error"

\* C18: when serializing the updated data fails during a write-back
\* (updateFrontmatter, setVariableInFrontmatter, applyChangesToFrontmatter),
\* the failure reaches the caller as an exception or an error notification,
\* and the document is left unchanged.
C18_SerializationFailureSurfaces ==
    (flow.pc = "done" /\ flow.dumpFailed)
        => (ErrorOutcome /\ ~flow.wrote /\ doc = flow.liveAtWrite)

\* the expression compiled from the settings matches somewhere in the text
HasPlaceholder(text, settings) ==
    \E i \in 1..Len(text) : MatchFrom(text, FreshPattern(DelimitersOf(settings)), i).ok

\* C21: for every data and configuration, replaceVariables applied to a text
\* that contains no placeholder match returns that text unchanged with
\* replacementCount = 0 and missingCount = 0.
C21_NoPlaceholderLeavesTextUnchanged ==
    (scan.op = "replace" /\ ~HasPlaceholder(scan.text, scan.settings))
        => /\ scan.out.result = scan.text
           /\ scan.out.replacementCount = 0
           /\ scan.out.missingCount = 0

\* C21 witness: a replace over a text that holds both delimiters around two
\* words, which the expression does not match, with a key a in the data
C21_Witness ==
    /\ scan.op = "replace"
    /\ scan.text = <<"{", "{", " ", "a", " ", "b", "}", "}">>
    /\ ~HasPlaceholder(scan.text, scan.settings)
    /\ HasProp(scan.frontmatter, sA)
    /\ scan.out.result = scan.text

(***************************************************************************)
(* Replace in document and copy document                                   *)
(* src/src/commands/replaceCommands.ts, src/src/commands/copyCommands.ts,   *)
(* src/main.js                                                             *)
(***************************************************************************)
\* document.positionAt / editor.offsetToPos: the line and character of an offset
positionAt(text, offset) ==
    [line |-> LineOf(text, offset), character |-> ColumnOf(text, offset)]

\* the offset at which a line of the text starts
LineStart(text, line) ==
    IF line = 0 THEN 0
    ELSE CHOOSE o \in 1..Len(text) :
             text[o] = "\n" /\ lineFeeds(SubSeq(text, 1, o)) = line

\* document.offsetAt / editor.posToOffset
offsetAt(text, position) == LineStart(text, position.line) + position.character

\* editBuilder.replace(new Range(from, to), replacement) / editor.replaceRange
replaceRange(text, replacement, from, to) ==
    SubSeq(text, 1, offsetAt(text, from)) \o replacement
        \o SubSeq(text, offsetAt(text, to) + 1, Len(text))

\* the end of the last line, as the plugin computes it
LastPosition(text) ==
    [line |-> lineFeeds(text), character |-> Len(text) - LineStart(text, lineFeeds(text))]

\* nothing to replace: the command returns before the edit
NothingToReplace(r) == r.replacementCount = 0 /\ r.missingCount = 0

\* the edit with the range starting at the top of the document
ReplacedDocument_fromTop(text, frontmatterEnd, r, applied) ==
    IF NothingToReplace(r) \/ ~applied THEN text
    ELSE replaceRange(text, r.result, positionAt(text, 0), positionAt(text, Len(text)))

\* the document after replaceInDocument, given what replaceVariables returned
\* for the body and whether the editor applied the edit
ReplacedDocument(text, frontmatterEnd, r, applied) ==
    IF NothingToReplace(r) \/ ~applied THEN text
    ELSE replaceRange(text, r.result, positionAt(text, frontmatterEnd),
                      positionAt(text, Len(text)))

\* the document after the plugin's replaceInDocument
Plugin_ReplacedDocument(text, frontmatterEnd, r) ==
    IF NothingToReplace(r) THEN text
    ELSE replaceRange(text, r.result, positionAt(text, frontmatterEnd), LastPosition(text))

\* the plugin's replace callback: the name is looked up by the plugin's getNestedValue
Plugin_ReplaceCallback(match, frontmatter, supportNestedProperties, settings) ==
    CallbackOf(match,
               Plugin_getNestedValue(frontmatter, trim(match.name), supportNestedProperties,
                                     settings.caseInsensitive),
               settings)

Plugin_ReplaceMatches(text, frontmatter, supportNestedProperties, settings, matches, cache) ==
    ReplaceResult(text, matches,
                  [k \in DOMAIN matches |->
                      Plugin_ReplaceCallback(matches[k], frontmatter, supportNestedProperties,
                                             settings)],
                  cache)

Plugin_ReplaceWith(text, frontmatter, supportNestedProperties, settings, got) ==
    Plugin_ReplaceMatches(text, frontmatter, supportNestedProperties, settings,
                          execAll(text, got.pattern, 0), got.cache)

Plugin_replaceVariables(text, frontmatter, supportNestedProperties, settings, cache) ==
    Plugin_ReplaceWith(text, frontmatter, supportNestedProperties, settings,
                       getVariablePattern(cache, DelimitersOf(settings)))

\* what a document command leaves behind
DocumentOutcome(content, frontmatterEnd, r, clipboard, notice) ==
    [content |-> content, frontmatterEnd |-> frontmatterEnd, result |-> r.result,
     replacementCount |-> r.replacementCount, missingCount |-> r.missingCount,
     clipboard |-> clipboard, notice |-> notice]

ReplaceNotice(r) ==
    IF NothingToReplace(r) THEN "No variables found in document" ELSE "Replaced"

ReplaceInDocument(text, settings, applied) ==
    /\ scan.op = "none"
    /\ \E frontmatter \in {parseFrontmatter(text)}, frontmatterEnd \in {findFrontmatterEnd(text)} :
       \E r \in {replaceVariables(slice(text, frontmatterEnd), frontmatter, settings,
                                  patternCache)} :
           /\ scan' = [op |-> "replaceInDocument", text |-> text, frontmatter |-> frontmatter,
                       settings |-> settings,
                       out |-> DocumentOutcome(ReplacedDocument(text, frontmatterEnd, r, applied),
                                               frontmatterEnd, r, <<>>, ReplaceNotice(r))]
           /\ patternCache' = r.cache
    /\ UNCHANGED <<data, lastOp, lastPattern, nCalls, modal, doc, nEdits, rn, block, walk, flow, deb>>

Plugin_ReplaceInDocument(text, supportNestedProperties, settings) ==
    /\ scan.op = "none"
    /\ \E frontmatter \in {parseFrontmatter(text)}, frontmatterEnd \in {findFrontmatterEnd(text)} :
       \E r \in {Plugin_replaceVariables(slice(text, frontmatterEnd), frontmatter,
                                         supportNestedProperties, settings, patternCache)} :
           /\ scan' = [op |-> "pluginReplaceInDocument", text |-> text,
                       frontmatter |-> frontmatter, settings |-> settings,
                       out |-> DocumentOutcome(Plugin_ReplacedDocument(text, frontmatterEnd, r),
                                               frontmatterEnd, r, <<>>, ReplaceNotice(r))]
           /\ patternCache' = r.cache
    /\ UNCHANGED <<data, lastOp, lastPattern, nCalls, modal, doc, nEdits, rn, block, walk, flow, deb>>

CopyDocumentReplaced(text, settings) ==
    /\ scan.op = "none"
    /\ \E frontmatter \in {parseFrontmatter(text)}, frontmatterEnd \in {findFrontmatterEnd(text)} :
       \E r \in {replaceVariables(slice(text, frontmatterEnd), frontmatter, settings,
                                  patternCache)} :
           /\ scan' = [op |-> "copyDocumentReplaced", text |-> text,
                       frontmatter |-> frontmatter, settings |-> settings,
                       out |-> DocumentOutcome(text, frontmatterEnd, r, r.result, "Copied document")]
           /\ patternCache' = r.cache
    /\ UNCHANGED <<data, lastOp, lastPattern, nCalls, modal, doc, nEdits, rn, block, walk, flow, deb>>

IsDocumentCommand == scan.op \in {"replaceInDocument", "pluginReplaceInDocument", "copyDocumentReplaced"}

\* C22: replaceInDocument and copyDocumentReplaced never touch the frontmatter
\* block: the first findFrontmatterEnd(content) characters of the document are
\* the same after the command as before it, also when the frontmatter text holds
\* placeholder syntax, and the document after the command is those characters
\* followed by either the old body or the replaced body.
C22_FrontmatterBlockUntouched ==
    IsDocumentCommand =>
        /\ Len(scan.out.content) >= findFrontmatterEnd(scan.text)
        /\ SubSeq(scan.out.content, 1, findFrontmatterEnd(scan.text))
               = SubSeq(scan.text, 1, findFrontmatterEnd(scan.text))
        /\ scan.out.content \in
               { scan.text,
                 SubSeq(scan.text, 1, findFrontmatterEnd(scan.text)) \o scan.out.result }

\* a document whose frontmatter holds placeholder syntax and whose body
\* placeholder was replaced
C22_Witness ==
    /\ scan.op = "replaceInDocument"
    /\ findFrontmatterEnd(scan.text) > 0
    /\ HasPlaceholder(SubSeq(scan.text, 1, findFrontmatterEnd(scan.text)), scan.settings)
    /\ scan.out.replacementCount > 0
    /\ scan.out.content # scan.text

(***************************************************************************)
(* The supportNestedProperties setting and the engine                      *)
(* src/unnamed/part_000 (getSettings), src/src/variableReplacer.ts          *)
(***************************************************************************)
\* bodies whose placeholder names are a plain key and a dotted path
NestedBodies == { Ph(sA), Ph(<<"a", ".", "k">>), Ph(sA) \o Ph(<<"a", ".", "k">>) }

\* replaceVariables called with the settings object that getSettings built:
\* the object carries supportNestedProperties, the engine reads the other fields
ReplaceVariablesUnder(text, frontmatter, supportNestedProperties, settings) ==
    /\ scan.op = "none"
    /\ \E r \in {replaceVariables(text, frontmatter, settings, patternCache)} :
           /\ scan' = [op |-> "replaceUnder", text |-> text, frontmatter |-> frontmatter,
                       settings |-> settings,
                       out |-> [supportNestedProperties |-> supportNestedProperties,
                                result |-> r.result,
                                replacementCount |-> r.replacementCount,
                                missingCount |-> r.missingCount,
                                matches |-> r.matches,
                                outcomes |-> r.outcomes]]
           /\ patternCache' = r.cache
    /\ UNCHANGED <<data, lastOp, lastPattern, nCalls, modal, doc, nEdits, rn, block, walk, flow, deb>>

\* C23: with supportNestedProperties disabled the engine of
\* src/src/variableReplacer.ts does not use dot notation: every placeholder name
\* is looked up as one top-level key, as the plugin's getNestedValue does in its
\* simple mode, and the Mapping stored under a is never traversed for a.k.
C23_DisabledNestingLooksUpWholeName ==
    (scan.op = "replaceUnder" /\ ~scan.out.supportNestedProperties) =>
        \A k \in DOMAIN scan.out.outcomes :
            scan.out.outcomes[k].value
                = Plugin_getNestedValue(scan.frontmatter, trim(scan.out.matches[k].name),
                                        FALSE, scan.settings.caseInsensitive)

(***************************************************************************)
(* Write-back on the document text                                         *)
(* src/src/frontmatterParser.ts (updateFrontmatter),                        *)
(* src/main.js (setVariableInFrontmatter)                                   *)
(***************************************************************************)
sNull == <<"n", "u", "l", "l">>

\* one `key: value` line of the dumped block
DumpEntry(key, value) ==
    key \o <<":", " ">> \o (IF value.t = "null" THEN sNull ELSE StringOf(value)) \o <<"\n">>

RECURSIVE DumpEntries(_, _)
DumpEntries(frontmatter, i) ==
    IF i > Len(frontmatter.ks) THEN <<>>
    ELSE DumpEntry(frontmatter.ks[i], frontmatter.m[frontmatter.ks[i]])
             \o DumpEntries(frontmatter, i + 1)

\* yaml.dump / stringifyYaml of a Mapping of scalars
yamlDump(frontmatter) ==
    IF frontmatter.ks = <<>> THEN <<"{", "}", "\n">> ELSE DumpEntries(frontmatter, 1)

\* `---\n${newFmContent}---\n`
NewFmBlock(frontmatter) == sDashes \o <<"\n">> \o yamlDump(frontmatter) \o sDashes \o <<"\n">>

\* the document after the edit, given what setNestedValue made of the parsed
\* frontmatter: the old block replaced, or a new block inserted at the top
WriteBlock(text, hasFrontmatter, fmEnd, r) ==
    IF r.st = "throw" THEN [threw |-> TRUE, content |-> text]
    ELSE [threw |-> FALSE,
          content |-> IF hasFrontmatter
                      THEN replaceRange(text, NewFmBlock(r.n),
                                        [line |-> 0, character |-> 0], positionAt(text, fmEnd))
                      ELSE NewFmBlock(r.n) \o text]

\* updateFrontmatter(document, {name: value}) followed by the edit
updateFrontmatterText(text, name, value) ==
    WriteBlock(text, startsWith(text, sDashes), findFrontmatterEnd(text),
               setNestedValue(parseFrontmatter(text), name, value))

\* setVariableInFrontmatter(editor, varName, value)
Plugin_setVariableInFrontmatter(text, varName, value, supportNestedProperties, caseInsensitive) ==
    WriteBlock(text, startsWith(text, sDashes),
               IF startsWith(text, sDashes) THEN findFrontmatterEnd(text) ELSE 0,
               Plugin_setNestedValue(IF startsWith(text, sDashes) THEN parseFrontmatter(text)
                                     ELSE EmptyMap,
                                     varName, value, supportNestedProperties, caseInsensitive))

\* documents whose block holds a line that is no entry, with and without a body
UnreadableTexts ==
    { <<"-", "-", "-", "\n", "a", ":", " ", "v", "\n", "x", " ", "y", "\n", "-", "-", "-", "\n">>,
      <<"-", "-", "-", "\n", "a", ":", " ", "v", "\n", "x", " ", "y", "\n", "-", "-", "-", "\n", "t", "\n">> }

\* the documents written back to: no block, readable blocks and unreadable ones
WriteBackTexts ==
    UnreadableTexts \cup { fm \o body : fm \in FrontmatterBlocks, body \in {<<>>, <<"t", "\n">>} }

UpdateFrontmatterText(text, name, value) ==
    /\ block.op = "none"
    /\ \E w \in {updateFrontmatterText(text, name, value)} :
           block' = [op |-> "update", text |-> text, end |-> findFrontmatterEnd(text),
                     frontmatter |-> parseFrontmatter(text), name |-> name, value |-> value,
                     threw |-> w.threw, content |-> w.content]
    /\ UNCHANGED <<coreVars, scan, walk, flow, deb>>

Plugin_SetVariableInFrontmatterText(text, varName, value, supportNestedProperties, caseInsensitive) ==
    /\ block.op = "none"
    /\ \E w \in {Plugin_setVariableInFrontmatter(text, varName, value, supportNestedProperties,
                                                 caseInsensitive)} :
           block' = [op |-> "pluginUpdate", text |-> text, end |-> findFrontmatterEnd(text),
                     frontmatter |-> parseFrontmatter(text), name |-> varName, value |-> value,
                     threw |-> w.threw, content |-> w.content]
    /\ UNCHANGED <<coreVars, scan, walk, flow, deb>>

\* the block of the text exists and yaml.load throws on its content
ParseFails(text) ==
    /\ startsWith(text, sDashes)
    /\ emptyMatch(text) = 0
    /\ findFrontmatterEnd(text) # 0
    /\ yamlLoad(BlockBefore(text, findFrontmatterEnd(text))).threw

\* C24: a write-back never discards existing frontmatter it could not read:
\* when the document begins with --- and the content of its block fails to
\* parse, the document after updateFrontmatter / setVariableInFrontmatter is not
\* the old body under a new block that holds only the written key.
C24_UnreadableBlockNotDiscarded ==
    (block.op \in {"update", "pluginUpdate"} /\ ParseFails(block.text)) =>
        block.content
            # NewFmBlock(PutOwn(EmptyMap, block.name, block.value))
                  \o slice(block.text, findFrontmatterEnd(block.text))

\* the path is a placeholder name: one or more name characters
IsPlaceholderName(path) == path # <<>> /\ \A i \in DOMAIN path : IsNameChar(path[i])

\* C25: write/read round trip: for every Mapping, value and path of the
\* placeholder name grammar (paths with empty segments such as a..b or a.
\* included) that has no forbidden segment and no index above 1000, after
\* setNestedValue(d, p, v) has returned, getNestedValue(d, p) returns v.
C25_WriteThenReadReturnsValue ==
    (/\ lastOp.op = "set"
     /\ lastOp.st # "throw"
     /\ IsPlaceholderName(lastOp.path)
     /\ ~HasForbiddenSegment(lastOp.path)
     /\ ~HasOversizedIndex(lastOp.path))
        => getNestedValue(data, lastOp.path, FALSE) = lastOp.value

\* a success notification was shown
SuccessShown == \E k \in DOMAIN flow.notices : flow.notices[k].type = "success"

\* C26: the success notification of a frontmatter write ("Updated name =
\* value" from editVariable) is shown only if the frontmatter edit was applied
\* to the document: none is shown when the write is aborted or the edit is
\* rejected.
C26_SuccessNoticeOnlyWhenApplied ==
    (flow.cmd = "editVariable" /\ flow.pc = "done" /\ SuccessShown) => flow.applied

(***************************************************************************)
(* Debounced decoration updates                                            *)
(* src/src/decorationProvider.ts (updateDecorationsDebounced, dispose),     *)
(* src/src/extension.ts (onDidChangeTextDocument, deactivate)               *)
(* Time is counted in ticks of TICK_MS milliseconds.  A timer that is due   *)
(* runs before any event of the same instant is handled.                   *)
(***************************************************************************)
DEBOUNCE_MS == 300
TICK_MS == 100
DebounceTicks == DEBOUNCE_MS \div TICK_MS

\* the last instant of the clock, and the most change events handled
MaxTime == 8
MaxEvents == 4

NoTimeout == 0

\* the provider after construction: updateTimeout undefined, no timer pending
NoDebounce ==
    [now |-> 0, updateTimeout |-> NoTimeout, timers |-> {}, nextId |-> 1,
     events |-> <<>>, calls |-> <<>>, disposed |-> FALSE, disposedAt |-> 0]

\* clearTimeout(handle): the timer leaves the queue, if it is still there
clearTimeout(timers, handle) == { t \in timers : t.id # handle }

\* `if (this.updateTimeout) clearTimeout(this.updateTimeout)`
ClearPending(d) ==
    IF d.updateTimeout # NoTimeout THEN clearTimeout(d.timers, d.updateTimeout) ELSE d.timers

\* the debounce without the clearTimeout
Schedule_keepsPending(d) ==
    [d EXCEPT !.timers = d.timers \cup {[id |-> d.nextId, due |-> d.now + DebounceTicks]},
              !.updateTimeout = d.nextId,
              !.nextId = d.nextId + 1]

\* updateDecorationsDebounced(editor)
Schedule(d) ==
    [d EXCEPT !.timers = ClearPending(d) \cup {[id |-> d.nextId, due |-> d.now + DebounceTicks]},
              !.updateTimeout = d.nextId,
              !.nextId = d.nextId + 1]

\* a timer of the queue is due
TimerDue == \E t \in deb.timers : t.due <= deb.now

\* onDidChangeTextDocument: debounce when the event is for the active editor's document
DocumentChanged(isActiveDocument) ==
    /\ ~deb.disposed
    /\ ~TimerDue
    /\ Len(deb.events) < MaxEvents
    /\ deb' = IF isActiveDocument
              THEN [Schedule(deb) EXCEPT !.events = Append(deb.events, deb.now)]
              ELSE deb
    /\ UNCHANGED <<coreVars, scan, block, walk, flow>>

\* the timer callback: this.updateDecorations(editor)
TimerFires ==
    /\ \E t \in deb.timers :
           /\ t.due <= deb.now
           /\ deb' = [deb EXCEPT !.timers = deb.timers \ {t},
                                 !.calls = Append(deb.calls, deb.now)]
    /\ UNCHANGED <<coreVars, scan, block, walk, flow>>

\* TICK_MS milliseconds pass
Tick ==
    /\ ~TimerDue
    /\ deb.now < MaxTime
    /\ deb' = [deb EXCEPT !.now = deb.now + 1]
    /\ UNCHANGED <<coreVars, scan, block, walk, flow>>

\* deactivate: decorationProvider.dispose(), decorationProvider = undefined
Dispose ==
    /\ ~deb.disposed
    /\ ~TimerDue
    /\ deb' = [deb EXCEPT !.timers = ClearPending(deb), !.disposed = TRUE,
                          !.disposedAt = deb.now]
    /\ UNCHANGED <<coreVars, scan, block, walk, flow>>

\* the k-th event is the last of its burst: the next one, if any, came
\* DEBOUNCE_MS or more after it
LastOfBurst(k) ==
    k = Len(deb.events) \/ deb.events[k + 1] - deb.events[k] >= DebounceTicks

\* the burst that ends with the k-th event has had its time: its timer is
\* neither pending nor cancelled by dispose
BurstSettled(k) ==
    /\ LastOfBurst(k)
    /\ k = Len(deb.events) =>
           /\ deb.timers = {}
           /\ ~(deb.disposed /\ deb.disposedAt < deb.events[k] + DebounceTicks)

\* the instants at which the settled bursts call updateDecorations
RECURSIVE ExpectedCalls(_)
ExpectedCalls(k) ==
    IF k > Len(deb.events) THEN <<>>
    ELSE (IF BurstSettled(k) THEN <<deb.events[k] + DebounceTicks>> ELSE <<>>)
             \o ExpectedCalls(k + 1)

\* C27: decoration updates are debounced: at most one debounced update is
\* pending; a change event that arrives while one is pending replaces it; every
\* burst of change events with gaps under 300 ms triggers exactly one
\* updateDecorations call, 300 ms after its last event; and after dispose
\* nothing is pending, so no call follows.
C27_OneUpdatePerBurst ==
    /\ Cardinality(deb.timers) <= 1
    /\ \A t \in deb.timers :
           /\ t.id = deb.updateTimeout
           /\ deb.events # <<>>
           /\ t.due = deb.events[Len(deb.events)] + DebounceTicks
    /\ deb.calls = ExpectedCalls(1)
    /\ deb.disposed => deb.timers = {}

\* two bursts, the first of three events, each followed by its one call
C27_Witness ==
    /\ Len(deb.events) = 4
    /\ deb.events[2] > deb.events[1]
    /\ deb.events[2] - deb.events[1] < DebounceTicks
    /\ deb.events[3] - deb.events[2] < DebounceTicks
    /\ deb.events[4] - deb.events[3] >= DebounceTicks
    /\ deb.calls = <<deb.events[3] + DebounceTicks, deb.events[4] + DebounceTicks>>

(***************************************************************************)
(* Positions of the scanned variables in the document                      *)
(* src/src/variableReplacer.ts (scanDocumentVariables),                     *)
(* src/src/decorationProvider.ts (updateDecorations)                        *)
(***************************************************************************)
\* a frontmatter block with CRLF line endings
CRLFBlock ==
    <<"-", "-", "-", "\r", "\n", "a", ":", " ", "v", "\r", "\n", "-", "-", "-", "\r", "\n">>

\* the documents scanned: those of the decorations, and CRLF documents
PositionDocuments ==
    Documents
        \cup { CRLFBlock \o body :
                   body \in { Ph(sA), <<"x">> \o Ph(sA),
                              <<"x", "\r", "\n", "y">> \o PhD(sA, sD) \o <<"\r", "\n">> \o Ph(sB) } }

\* scanDocumentVariables(content, parseFrontmatterFromDocument(document),
\* findFrontmatterEnd(content), settings), as updateDecorations calls it
ScanDocument(text, settings) ==
    /\ scan.op = "none"
    /\ \E frontmatter \in {parseFrontmatter(text)} :
       \E r \in {scanDocumentVariables(text, frontmatter, findFrontmatterEnd(text), settings,
                                       patternCache)} :
           /\ scan' = [op |-> "scanDocument", text |-> text, frontmatter |-> frontmatter,
                       settings |-> settings, out |-> [variables |-> r.variables]]
           /\ patternCache' = r.cache
    /\ UNCHANGED <<data, lastOp, lastPattern, nCalls, modal, doc, nEdits, rn, block, walk, flow, deb>>

\* document.lineAt(line).text: the line without its terminator
DocumentLine(text, line) == stripCR(LinesOf(text)[line + 1])

\* the text that the range (line, start)-(line, end) covers, if the range lies in the line
RangeIsText(text, line, start, end, expected) ==
    /\ line < Len(LinesOf(text))
    /\ end <= Len(DocumentLine(text, line))
    /\ SubSeq(DocumentLine(text, line), start + 1, end) = expected

\* C28: for every Variable that scanDocumentVariables returns, the position
\* addresses the placeholder in the full document: the text of line
\* position.line between the columns position.start and position.end is
\* fullMatch, also when the placeholder spans a line break and when the
\* frontmatter block has CRLF line endings.
C28_PositionAddressesPlaceholder ==
    scan.op = "scanDocument" =>
        \A i \in DOMAIN scan.out.variables :
            RangeIsText(scan.text, scan.out.variables[i].line, scan.out.variables[i].start,
                        scan.out.variables[i].end, scan.out.variables[i].fullMatch)

\* C29: replaceVariables never erases a placeholder with empty text taken from
\* the data: when a placeholder is counted in replacementCount because its name
\* resolved to a value, the text emitted for it is not empty, also for an empty
\* Sequence and for a Sequence of empty strings or Null.
C29_ResolvedValueNeverEmitsEmptyText ==
    scan.op = "replace" =>
        \A k \in DOMAIN scan.out.outcomes :
            scan.out.outcomes[k].kind = "value" => scan.out.outcomes[k].text # <<>>

(***************************************************************************)
(* Filename sanitization                                                   *)
(* src/src/utils/fileOperations.ts (sanitizeFilename), src/main.js          *)
(***************************************************************************)
\* the class [\\/:*?"<>|]
InvalidFilenameChars == {"\\", "/", ":", "*", "?", "\"", "<", ">", "|"}

\* .replace(/[\\/:*?"<>|]/g, '-')
ReplaceInvalidChars(name) ==
    [i \in DOMAIN name |-> IF name[i] \in InvalidFilenameChars THEN "-" ELSE name[i]]

\* .replace(/\s+/g, ' '): every run of whitespace becomes one space
RECURSIVE CollapseSpaces(_)
CollapseSpaces(s) ==
    IF s = <<>> THEN <<>>
    ELSE IF IsSpace(Head(s))
    THEN IF Len(s) > 1 /\ IsSpace(s[2]) THEN CollapseSpaces(Tail(s))
         ELSE <<" ">> \o CollapseSpaces(Tail(s))
    ELSE <<Head(s)>> \o CollapseSpaces(Tail(s))

RECURSIVE StripLeadingDots(_)
StripLeadingDots(s) ==
    IF s # <<>> /\ Head(s) = "." THEN StripLeadingDots(Tail(s)) ELSE s

RECURSIVE StripTrailingDots(_)
StripTrailingDots(s) ==
    IF s # <<>> /\ s[Len(s)] = "." THEN StripTrailingDots(SubSeq(s, 1, Len(s) - 1)) ELSE s

\* .replace(/^\.+|\.+$/g, '')
StripDots(s) == StripTrailingDots(StripLeadingDots(s))

Digits1to9 == {"1", "2", "3", "4", "5", "6", "7", "8", "9"}

\* /^(con|prn|aux|nul|com[1-9]|lpt[1-9])$/i
WINDOWS_RESERVED(s) ==
    \/ toLowerCase(s) \in { <<"c", "o", "n">>, <<"p", "r", "n">>, <<"a", "u", "x">>,
                            <<"n", "u", "l">> }
    \/ /\ Len(s) = 4
       /\ toLowerCase(SubSeq(s, 1, 3)) \in { <<"c", "o", "m">>, <<"l", "p", "t">> }
       /\ s[4] \in Digits1to9

\* the chain of replacements and the reserved-name prefix
Sanitized(name) ==
    IF WINDOWS_RESERVED(StripDots(trim(CollapseSpaces(ReplaceInvalidChars(name)))))
    THEN <<"_">> \o StripDots(trim(CollapseSpaces(ReplaceInvalidChars(name))))
    ELSE StripDots(trim(CollapseSpaces(ReplaceInvalidChars(name))))

\* string | null
NullName == [isNull |-> TRUE, text |-> <<>>]
NameOf(text) == [isNull |-> FALSE, text |-> text]

sanitizeFilename(name) ==
    IF name = <<>> THEN NullName
    ELSE IF Sanitized(name) = <<>> THEN NullName
    ELSE NameOf(Sanitized(name))

\* the longest name sanitized, and the characters it is made of
MaxNameLen == 4
NameChars == {"a", ".", " ", "/"}

RECURSIVE NamesUpTo(_)
NamesUpTo(n) ==
    IF n = 0 THEN {<<>>}
    ELSE NamesUpTo(n - 1) \cup { <<c>> \o s : c \in NameChars, s \in NamesUpTo(n - 1) }

\* names around the reserved ones
ReservedLikeNames ==
    { <<"c", "o", "n">>, <<"C", "o", "N">>, <<".", "c", "o", "n">>, <<"c", "o", "n", " ", ".">>,
      <<"c", "o", "m", "1">>, <<"c", "o", "m", "0">>, <<"L", "P", "T", "9">>,
      <<"n", "u", "l", "\t", "\t", "x">>, <<"a", "u", "x", "?">>, <<"p", "r", "n", ".">> }

FileNames == NamesUpTo(MaxNameLen) \cup ReservedLikeNames

\* sanitizeFilename(newName), as the rename commands call it
SanitizeFilename(name) ==
    /\ rn.pc = "start"
    /\ rn' = [pc |-> "sanitized", name |-> name, result |-> sanitizeFilename(name)] @@ NoRename
    /\ UNCHANGED <<data, lastOp, patternCache, lastPattern, nCalls, modal, doc, nEdits, scan, block, walk, flow, deb>>

\* C30: for every name, sanitizeFilename returns null or a non-empty string
\* with none of the characters \ / : * ? " < > |, without a leading or trailing
\* space or dot, that is not a Windows reserved name in any letter case; and it
\* returns null exactly when nothing remains after the sanitization.
C30_SanitizedNameIsValid ==
    rn.pc = "sanitized" =>
        /\ rn.result.isNull <=> Sanitized(rn.name) = <<>>
        /\ ~rn.result.isNull =>
               /\ rn.result.text # <<>>
               /\ \A i \in DOMAIN rn.result.text : rn.result.text[i] \notin InvalidFilenameChars
               /\ Head(rn.result.text) \notin {" ", "."}
               /\ rn.result.text[Len(rn.result.text)] \notin {" ", "."}
               /\ ~WINDOWS_RESERVED(rn.result.text)

(***************************************************************************)
(* Specifications                                                          *)
(***************************************************************************)
PathInit ==
    /\ data \in DataSet
    /\ lastOp = NoOp
    /\ patternCache = NullCache
    /\ lastPattern = NoPatternCall
    /\ nCalls = 0
    /\ modal = NoModal
    /\ doc = Doc(FALSE, EmptyMap)
    /\ nEdits = 0
    /\ rn = NoRename
    /\ scan = NoScan
    /\ block = NoBlock
    /\ walk = NoWalk
    /\ flow = NoFlow
    /\ deb = NoDebounce

WriteNext == \E path \in WritePaths, value \in Values : SetNestedValue(path, value)

WriteSpec == PathInit /\ [][WriteNext]_vars

ReadNext == \E path \in ReadPaths, ci \in BOOLEAN : GetNestedValue(path, ci)

ReadSpec == PathInit /\ [][ReadNext]_vars

PatternInit ==
    /\ data = EmptyMap
    /\ lastOp = NoOp
    /\ patternCache = NullCache
    /\ lastPattern = NoPatternCall
    /\ nCalls = 0
    /\ modal = NoModal
    /\ doc = Doc(FALSE, EmptyMap)
    /\ nEdits = 0
    /\ rn = NoRename
    /\ scan = NoScan
    /\ block = NoBlock
    /\ walk = NoWalk
    /\ flow = NoFlow
    /\ deb = NoDebounce

PatternNext ==
    \/ \E settings \in SettingsSet : GetVariablePattern(settings)
    \/ \E settings \in SettingsSet, offset \in 1..MaxScanOffset :
          GetVariableAtPosition(settings, offset)
    \/ InvalidatePatternCache

PatternSpec == PatternInit /\ [][PatternNext]_vars

ModalInit ==
    /\ data = EmptyMap
    /\ lastOp = NoOp
    /\ patternCache = NullCache
    /\ lastPattern = NoPatternCall
    /\ nCalls = 0
    /\ modal = NoModal
    /\ doc \in DocSet
    /\ nEdits = 0
    /\ rn = NoRename
    /\ scan = NoScan
    /\ block = NoBlock
    /\ walk = NoWalk
    /\ flow = NoFlow
    /\ deb = NoDebounce

ModalNext ==
    \/ ListAllVariables
    \/ \E newDoc \in DocSet : EditDocument(newDoc)
    \/ \E changes \in ChangeLists, value \in Values, stringifyFails \in BOOLEAN :
          SaveAll(changes, value, stringifyFails)

ModalSpec == ModalInit /\ [][ModalNext]_vars

RenameInit ==
    /\ data = EmptyMap
    /\ lastOp = NoOp
    /\ patternCache = NullCache
    /\ lastPattern = NoPatternCall
    /\ nCalls = 0
    /\ modal = NoModal
    /\ doc = Doc(FALSE, EmptyMap)
    /\ nEdits = 0
    /\ rn = [NoRename EXCEPT !.pc = "start"]
    /\ scan = NoScan
    /\ block = NoBlock
    /\ walk = NoWalk
    /\ flow = NoFlow
    /\ deb = NoDebounce

RenameNext ==
    \/ \E docReplaced \in 0..MaxCount, docMissing \in 0..MaxCount, nameReplaced \in 0..MaxCount,
          nameDiffers \in BOOLEAN, sanitized \in BOOLEAN :
          ReplaceInDocumentAndFilename(docReplaced, docMissing, nameReplaced, nameDiffers, sanitized)
    \/ \E exists \in BOOLEAN : StatSettled(exists)
    \/ \E ok \in BOOLEAN : RenameSettled(ok)
    \/ \E outcome \in {"applied", "refused", "threw"} : EditSettled(outcome)
    \/ \E name \in FileNames : SanitizeFilename(name)

RenameSpec == RenameInit /\ [][RenameNext]_vars

TextInit ==
    /\ data = EmptyMap
    /\ lastOp = NoOp
    /\ patternCache = NullCache
    /\ lastPattern = NoPatternCall
    /\ nCalls = 0
    /\ modal = NoModal
    /\ doc = Doc(FALSE, EmptyMap)
    /\ nEdits = 0
    /\ rn = NoRename
    /\ scan = NoScan
    /\ block = NoBlock
    /\ walk = NoWalk
    /\ flow = NoFlow
    /\ deb = NoDebounce

TextNext ==
    \/ \E text \in Bodies, frontmatter \in Frontmatters, settings \in EngineSettingsSet :
          ReplaceVariables(text, frontmatter, settings)
    \/ \E text \in Bodies, frontmatter \in Frontmatters, settings \in EngineSettingsSet :
          ScanDocumentVariables(text, frontmatter, settings)
    \/ \E text \in Documents, nested \in BOOLEAN, settings \in EngineSettingsSet :
          Plugin_ScanDocumentVariables(text, nested, settings)
    \/ \E text \in Documents, highlightVariables \in BOOLEAN, settings \in EngineSettingsSet :
          UpdateDecorations(text, highlightVariables, settings)
    \/ \E text \in Documents, settings \in EngineSettingsSet, applied \in BOOLEAN :
          ReplaceInDocument(text, settings, applied)
    \/ \E text \in Documents, nested \in BOOLEAN, settings \in EngineSettingsSet :
          Plugin_ReplaceInDocument(text, nested, settings)
    \/ \E text \in Documents, settings \in EngineSettingsSet :
          CopyDocumentReplaced(text, settings)
    \/ \E text \in PositionDocuments, settings \in EngineSettingsSet :
          ScanDocument(text, settings)
    \/ \E text \in NestedBodies, frontmatter \in Frontmatters, nested \in BOOLEAN,
          settings \in EngineSettingsSet :
          ReplaceVariablesUnder(text, frontmatter, nested, settings)

TextSpec == TextInit /\ [][TextNext]_vars

WalkInit ==
    /\ data = EmptyMap
    /\ lastOp = NoOp
    /\ patternCache = NullCache
    /\ lastPattern = NoPatternCall
    /\ nCalls = 0
    /\ modal = NoModal
    /\ doc = Doc(FALSE, EmptyMap)
    /\ nEdits = 0
    /\ rn = NoRename
    /\ scan = NoScan
    /\ block = NoBlock
    /\ walk = NoWalk
    /\ flow = NoFlow
    /\ deb = NoDebounce

WalkNext ==
    \/ \E heap \in Heaps, body \in WalkBodies : ScanFrontmatterOnly(heap, body)
    \/ CollectFrontmatterProperties

WalkSpec == WalkInit /\ [][WalkNext]_vars

\* every call that has started keeps running until it returns
WalkLiveSpec == WalkSpec /\ WF_vars(CollectFrontmatterProperties)

BlockInit ==
    /\ data = EmptyMap
    /\ lastOp = NoOp
    /\ patternCache = NullCache
    /\ lastPattern = NoPatternCall
    /\ nCalls = 0
    /\ modal = NoModal
    /\ doc = Doc(FALSE, EmptyMap)
    /\ nEdits = 0
    /\ rn = NoRename
    /\ scan = NoScan
    /\ block = NoBlock
    /\ walk = NoWalk
    /\ flow = NoFlow
    /\ deb = NoDebounce

BlockNext ==
    \/ \E text \in DocumentTexts : FindFrontmatterEnd(text)
    \/ \E text \in DocumentTexts : ParseFrontmatter(text)
    \/ \E text \in WriteBackTexts, name \in {sA, sB} :
          UpdateFrontmatterText(text, name, Str(<<"w">>))
    \/ \E text \in WriteBackTexts, name \in {sA, sB}, nested \in BOOLEAN, ci \in BOOLEAN :
          Plugin_SetVariableInFrontmatterText(text, name, Str(<<"w">>), nested, ci)

BlockSpec == BlockInit /\ [][BlockNext]_vars

FlowInit ==
    /\ data = EmptyMap
    /\ lastOp = NoOp
    /\ patternCache = NullCache
    /\ lastPattern = NoPatternCall
    /\ nCalls = 0
    /\ modal = NoModal
    /\ doc \in DocSet
    /\ nEdits = 0
    /\ rn = NoRename
    /\ scan = NoScan
    /\ block = NoBlock
    /\ walk = NoWalk
    /\ flow = NoFlow
    /\ deb = NoDebounce

FlowNext ==
    \/ \E name \in Range(VariableNames), level \in NotificationLevels :
          ListVariablesCommand(name, level)
    \/ \E name \in Range(VariableNames), level \in NotificationLevels :
          SetVariableCommand(name, level)
    \/ \E newDoc \in DocSet : EditWhileInputOpen(newDoc)
    \/ \E newValue \in InputResults, dumpFails \in BOOLEAN, applied \in BOOLEAN :
          InputSettled(newValue, dumpFails, applied)
    \/ \E varName \in Range(VariableNames), value \in Values, stringifyFails \in BOOLEAN,
          level \in NotificationLevels :
          SetVariableInFrontmatter(varName, value, stringifyFails, level)
    \/ \E changes \in ChangeLists, value \in Values, stringifyFails \in BOOLEAN,
          level \in NotificationLevels :
          ApplyChangesToFrontmatter(changes, value, stringifyFails, level)

FlowSpec == FlowInit /\ [][FlowNext]_vars

DebounceInit ==
    /\ data = EmptyMap
    /\ lastOp = NoOp
    /\ patternCache = NullCache
    /\ lastPattern = NoPatternCall
    /\ nCalls = 0
    /\ modal = NoModal
    /\ doc = Doc(FALSE, EmptyMap)
    /\ nEdits = 0
    /\ rn = NoRename
    /\ scan = NoScan
    /\ block = NoBlock
    /\ walk = NoWalk
    /\ flow = NoFlow
    /\ deb = NoDebounce

DebounceNext ==
    \/ \E isActiveDocument \in BOOLEAN : DocumentChanged(isActiveDocument)
    \/ TimerFires
    \/ Tick
    \/ Dispose

DebounceSpec == DebounceInit /\ [][DebounceNext]_vars

====
